---- MODULE Spec2Model ----
(***************************************************************************)
(* A model of the document structuring and chunking engine of doc_to_md:   *)
(* the structure-aware segmenter, the metadata enricher, the heading       *)
(* fixer, the markdown cleanup, the table merger, the link and code-block  *)
(* fixers and the conversion pipeline that runs them.  Text is a sequence  *)
(* of one-character strings; every regular expression of the source is an  *)
(* operator that computes the match Python's re module computes.           *)
(***************************************************************************)
EXTENDS Integers, Sequences, FiniteSets, TLC

VARIABLES
    markdown,   \* the text handed to the stage under study
    toc,        \* list[TOCItem]: the outline handed to the heading fixer
    kwargs,     \* keyword arguments the caller passes to the configuration class
    config,     \* the configuration object of the stage
    toc_map,    \* HeadingFixer._toc_map
    chunks,     \* list[Chunk]: result of segment / enrich_chunks
    result,     \* text returned by the first run of the stage
    result2,    \* text returned by the stage run again on result
    pc,         \* position of the run
    log,        \* the stages ConversionPipeline.convert announced with logger.info
    frame,      \* the local variables of _split_large_section while its loop runs
    tree,       \* TOCProcessor.root_nodes and the TOCNode objects they lead to
    hierarchy,  \* the nested dict create_heading_hierarchy returned
    pending     \* the merges merge_tables planned and has not applied yet

vars == <<markdown, toc, kwargs, config, toc_map, chunks, result, result2, pc, log, frame,
          tree, hierarchy, pending>>

\* no TOCProcessor was constructed, no hierarchy was created
NoTree == [root_nodes |-> <<>>, nodes |-> <<>>]

\* the local variables of _split_large_section before the call
NoFrame ==
    [paragraphs         |-> <<>>,
     protected_elements |-> <<>>,
     current_chunk      |-> <<>>,
     current_size       |-> 0,
     para_index         |-> 1]

(***************************************************************************)
(* Characters and basic string operations (Python str / re primitives).    *)
(***************************************************************************)
NL == "\n"

\* the characters Python's \s and str.strip() treat as whitespace
WS == {" ", "\n", "\t", "\r"}

Digits == {"0", "1", "2", "3", "4", "5", "6", "7", "8", "9"}

Min(S) == CHOOSE x \in S : \A y \in S : x <= y

Max(S) == CHOOSE x \in S : \A y \in S : x >= y

\* s[i:j] with 1-based inclusive bounds, empty when j < i
Slice(s, i, j) == IF j < i THEN <<>> ELSE SubSeq(s, i, j)

\* length of the maximal run of characters of Set that starts at position i
RunLen(s, i, Set) ==
    LET Run(stop) == IF stop = {} THEN Len(s) - i + 1 ELSE Min(stop) - i
    IN  IF i > Len(s) THEN 0 ELSE Run({j \in i..Len(s) : s[j] \notin Set})

\* length of the maximal run of characters outside Set that starts at i
RunLenNot(s, i, Set) ==
    LET Run(stop) == IF stop = {} THEN Len(s) - i + 1 ELSE Min(stop) - i
    IN  IF i > Len(s) THEN 0 ELSE Run({j \in i..Len(s) : s[j] \in Set})

\* index of the last character of the line that holds position i
\* (the position just before the next "\n", or the end of the text)
LineEnd(s, i) ==
    LET End(nls) == IF nls = {} THEN Len(s) ELSE Min(nls) - 1
    IN  End({j \in i..Len(s) : s[j] = NL})

\* regex ^ under re.MULTILINE
LineStart(s, i) == i = 1 \/ (i > 1 /\ i <= Len(s) + 1 /\ s[i - 1] = NL)

\* str.lstrip(), str.rstrip(), str.strip()
LStrip(s) == Slice(s, RunLen(s, 1, WS) + 1, Len(s))

RStrip(s) ==
    LET Keep(keep) == IF keep = {} THEN <<>> ELSE SubSeq(s, 1, Max(keep))
    IN  Keep({j \in 1..Len(s) : s[j] \notin WS})

Strip(s) == LStrip(RStrip(s))

\* s.startswith(p, i-1)
HasAt(s, i, p) ==
    /\ i >= 1
    /\ i + Len(p) - 1 <= Len(s)
    /\ \A k \in 1..Len(p) : s[i + k - 1] = p[k]

\* s.find(p, from-1) + 1: first position >= from where p occurs, 0 when none
Find(s, p, from) ==
    LET First(hits) == IF hits = {} THEN 0 ELSE Min(hits)
    IN  First({i \in from..(Len(s) - Len(p) + 1) : HasAt(s, i, p)})

\* p in s
Contains(s, p) == Find(s, p, 1) # 0

\* s.replace(old, new) for a non-empty old: every occurrence, left to right
RECURSIVE Replace(_, _, _)
Replace(s, old, new) ==
    LET i == Find(s, old, 1)
    IN  IF old = <<>> \/ i = 0 THEN s
        ELSE SubSeq(s, 1, i - 1) \o new
                 \o Replace(Slice(s, i + Len(old), Len(s)), old, new)

\* sep.join(parts)
RECURSIVE Join(_, _)
Join(parts, sep) ==
    IF parts = <<>> THEN <<>>
    ELSE IF Len(parts) = 1 THEN parts[1]
    ELSE parts[1] \o sep \o Join(Tail(parts), sep)

\* s.count("\n")
CountNL(s) == Cardinality({j \in 1..Len(s) : s[j] = NL})

\* '#' * n
Hashes(n) == [k \in 1..n |-> "#"]

\* the text with every whitespace character deleted
RECURSIVE DropWs(_)
DropWs(s) ==
    IF s = <<>> THEN <<>>
    ELSE IF Head(s) \in WS THEN DropWs(Tail(s))
    ELSE <<Head(s)>> \o DropWs(Tail(s))

(***************************************************************************)
(* segmenter.py                                                            *)
(***************************************************************************)

\* one match of r'^(#{1,6})\s+(.+)$' (re.MULTILINE) starting at position i:
\* \s+ is greedy and may run over newlines, then gives characters back until
\* (.+) finds a character that is not a newline; (.+) runs to the line's end
HeadingTextStarts(s, i) ==
    LET h == RunLen(s, i, {"#"})
        w == RunLen(s, i + h, WS)
    IN  {i + h + k : k \in {k \in 1..w : i + h + k <= Len(s) /\ s[i + h + k] # NL}}

HeadingMatchesAt(s, i) ==
    /\ i <= Len(s)
    /\ LineStart(s, i)
    /\ RunLen(s, i, {"#"}) \in 1..6
    /\ HeadingTextStarts(s, i) # {}

HeadingMatch(s, i) ==
    LET h  == RunLen(s, i, {"#"})
        ts == Max(HeadingTextStarts(s, i))
        te == LineEnd(s, ts)
    IN  [start |-> i, end |-> te, level |-> h, text |-> SubSeq(s, ts, te)]

\* list(heading_pattern.finditer(markdown)), scanning from position from
RECURSIVE HeadingFindIter(_, _)
HeadingFindIter(s, from) ==
    LET starts == {i \in from..Len(s) : HeadingMatchesAt(s, i)}
    IN  IF starts = {} THEN <<>>
        ELSE LET m == HeadingMatch(s, Min(starts))
             IN  <<m>> \o HeadingFindIter(s, m.end + 1)

DocumentTitle == <<"D", "o", "c", "u", "m", "e", "n", "t">>

\* the path stack after popping every entry whose level is <= level
RECURSIVE PopStackShallower(_, _)
PopStackShallower(stack, level) ==
    IF stack # <<>> /\ stack[Len(stack)].level <= level
    THEN PopStackShallower(SubSeq(stack, 1, Len(stack) - 1), level)
    ELSE stack

\* the path stack after popping every entry whose level is > level
RECURSIVE PopStackDeeper(_, _)
PopStackDeeper(stack, level) ==
    IF stack # <<>> /\ stack[Len(stack)].level > level
    THEN PopStackDeeper(SubSeq(stack, 1, Len(stack) - 1), level)
    ELSE stack

\* the path stack after popping every entry whose level is >= level
RECURSIVE PopStack(_, _)
PopStack(stack, level) ==
    IF stack # <<>> /\ stack[Len(stack)].level >= level
    THEN PopStack(SubSeq(stack, 1, Len(stack) - 1), level)
    ELSE stack

\* the loop of _split_by_headings over matches[i..], with the path stack
RECURSIVE SplitLoop(_, _, _, _)
SplitLoop(s, matches, i, stack) ==
    IF i > Len(matches) THEN <<>>
    ELSE LET m       == matches[i]
             title   == Strip(m.text)
             cend    == IF i + 1 <= Len(matches) THEN matches[i + 1].start - 1
                        ELSE Len(s)
             content == Strip(Slice(s, m.end + 1, cend))
             popped  == PopStack(stack, m.level)
             path    == [k \in 1..Len(popped) |-> popped[k].title]
         IN  <<[title   |-> title,
                level   |-> m.level,
                content |-> Hashes(m.level) \o <<" ">> \o title \o <<NL, NL>> \o content,
                path    |-> path]>>
             \o SplitLoop(s, matches, i + 1,
                          Append(popped, [level |-> m.level, title |-> title]))

SplitByHeadings(s) ==
    LET matches == HeadingFindIter(s, 1)
    IN  IF matches = <<>>
        THEN <<[title |-> DocumentTitle, level |-> 0, content |-> s, path |-> <<>>]>>
        ELSE SplitLoop(s, matches, 1, <<>>)

\* re.search(r'\|.+\|', content): two pipes on one line, a character between
HasTables(s) ==
    \E i \in 1..Len(s) : \E j \in (i + 2)..LineEnd(s, i) :
        s[i] = "|" /\ s[j] = "|"

\* the backquote character (the module's lexer has no literal for it)
Backquote == "BQ"

Fence == <<Backquote, Backquote, Backquote>>

\* one match of r'```[\s\S]*?```' starting at i: the nearest closing fence
CodeMatchesAt(s, i) == HasAt(s, i, Fence) /\ Find(s, Fence, i + 3) # 0

CodeMatchEnd(s, i) == Find(s, Fence, i + 3) + 2

\* re.search(r'```[\s\S]*?```', content)
HasCode(s) == \E i \in 1..Len(s) : CodeMatchesAt(s, i)

\* the characters of the class [-:\| ]
SepChars == {"-", ":", "|", " "}

\* r'\|[^\n]+\|\n' at position i: a pipe, at least one character, and a pipe
\* that ends the line, the line being terminated by a newline
RowAt(s, i) ==
    LET e == LineEnd(s, i)
    IN  /\ i <= Len(s)
        /\ s[i] = "|"
        /\ e >= i + 2
        /\ s[e] = "|"
        /\ e < Len(s)

\* r'\|[-:\| ]+\|\n' at position i
SepRowAt(s, i) ==
    /\ RowAt(s, i)
    /\ \A j \in (i + 1)..(LineEnd(s, i) - 1) : s[j] \in SepChars

\* r'\|.+\|\n\|[-:\| ]+\|' at position i (the separator needs no newline)
TypeTableAt(s, i) ==
    LET e == LineEnd(s, i)
    IN  /\ RowAt(s, i)
        /\ e + 2 <= Len(s)
        /\ s[e + 2] = "|"
        /\ \E m \in (e + 4)..LineEnd(s, e + 2) :
              /\ s[m] = "|"
              /\ \A j \in (e + 3)..(m - 1) : s[j] \in SepChars

\* position after the greedy (?:\|[^\n]+\|\n)* that starts at i
RECURSIVE RowsEnd(_, _)
RowsEnd(s, i) == IF RowAt(s, i) THEN RowsEnd(s, LineEnd(s, i) + 2) ELSE i

\* table_pattern of _split_large_section at position i (not anchored to ^)
TableMatchesAt(s, i) == RowAt(s, i) /\ SepRowAt(s, LineEnd(s, i) + 2)

TableMatchEnd(s, i) == RowsEnd(s, LineEnd(s, LineEnd(s, i) + 2) + 2) - 1

\* the matched texts of table_pattern.finditer(content), in order
RECURSIVE TableFindIter(_, _)
TableFindIter(s, from) ==
    LET starts == {i \in from..Len(s) : TableMatchesAt(s, i)}
    IN  IF starts = {} THEN <<>>
        ELSE LET i == Min(starts)
                 e == TableMatchEnd(s, i)
             IN  <<SubSeq(s, i, e)>> \o TableFindIter(s, e + 1)

\* the matched texts of code_pattern.finditer(working_content), in order
RECURSIVE CodeFindIter(_, _)
CodeFindIter(s, from) ==
    LET starts == {i \in from..Len(s) : CodeMatchesAt(s, i)}
    IN  IF starts = {} THEN <<>>
        ELSE LET i == Min(starts)
                 e == CodeMatchEnd(s, i)
             IN  <<SubSeq(s, i, e)>> \o CodeFindIter(s, e + 1)

\* number of non-overlapping matches of r'^[\s]*[-*+]\s' (kind "bullet") or
\* r'^[\s]*\d+\.\s' (kind "number") under re.MULTILINE, scanning from from
ListItemEnd(s, i, kind) ==
    LET p == i + RunLen(s, i, WS)
        q == IF kind = "bullet" THEN p + 1
             ELSE p + RunLen(s, p, Digits) + 1
    IN  IF /\ LineStart(s, i)
           /\ q <= Len(s)
           /\ s[q] \in WS
           /\ IF kind = "bullet" THEN s[p] \in {"-", "*", "+"}
              ELSE RunLen(s, p, Digits) >= 1 /\ s[q - 1] = "."
        THEN q ELSE 0

RECURSIVE CountListItems(_, _, _)
CountListItems(s, from, kind) ==
    LET starts == {i \in from..Len(s) : ListItemEnd(s, i, kind) # 0}
    IN  IF starts = {} THEN 0
        ELSE 1 + CountListItems(s, ListItemEnd(s, Min(starts), kind) + 1, kind)

\* re.match(r'^#{1,6}\s+.+$', st) for a stripped st without a newline
BareHeading(st) ==
    /\ Len(st) >= 1
    /\ \A j \in 1..Len(st) : st[j] # NL
    /\ HeadingMatchesAt(st, 1)

\* _detect_content_type with the checks for code blocks and tables exchanged
detect_content_type_code_first(content) ==
    IF HasCode(content) THEN "CODE_BLOCK"
    ELSE IF \E i \in 1..Len(content) : TypeTableAt(content, i) THEN "TABLE"
    ELSE IF 2 * (CountListItems(content, 1, "bullet")
                 + CountListItems(content, 1, "number")) > CountNL(content) + 1
         THEN "LIST"
    ELSE IF BareHeading(Strip(content)) THEN "HEADING"
    ELSE "PROSE"

detect_content_type(content) ==
    IF \E i \in 1..Len(content) : TypeTableAt(content, i) THEN "TABLE"
    ELSE IF HasCode(content) THEN "CODE_BLOCK"
    ELSE IF 2 * (CountListItems(content, 1, "bullet")
                 + CountListItems(content, 1, "number")) > CountNL(content) + 1
         THEN "LIST"
    ELSE IF BareHeading(Strip(content)) THEN "HEADING"
    ELSE "PROSE"

\* str(n) for n >= 0
DigitChars == <<"0", "1", "2", "3", "4", "5", "6", "7", "8", "9">>

RECURSIVE IntStr(_)
IntStr(n) ==
    IF n < 10 THEN <<DigitChars[n + 1]>>
    ELSE IntStr(n \div 10) \o <<DigitChars[(n % 10) + 1]>>

\* f"__TABLE_{i}__" and f"__CODE_{i}__"
TablePlaceholder(i) ==
    <<"_", "_", "T", "A", "B", "L", "E", "_">> \o IntStr(i) \o <<"_", "_">>

CodePlaceholder(i) ==
    <<"_", "_", "C", "O", "D", "E", "_">> \o IntStr(i) \o <<"_", "_">>

\* the two protection loops of _split_large_section: match number k (from 1)
\* gets placeholder number k-1, is recorded, and every occurrence of its text
\* in working_content is replaced by the placeholder
RECURSIVE ProtectLoop(_, _, _, _)
ProtectLoop(matches, k, type, acc) ==
    IF k > Len(matches) THEN acc
    ELSE LET ph == IF type = "TABLE" THEN TablePlaceholder(k - 1)
                   ELSE CodePlaceholder(k - 1)
         IN  ProtectLoop(matches, k + 1, type,
                 [elements |-> Append(acc.elements,
                                  [placeholder |-> ph, original |-> matches[k],
                                   type |-> type]),
                  working  |-> Replace(acc.working, matches[k], ph)])

Protect(content, cfg) ==
    LET none   == [elements |-> <<>>, working |-> content]
        tables == IF cfg.preserve_tables
                  THEN ProtectLoop(TableFindIter(content, 1), 1, "TABLE", none)
                  ELSE none
    IN  IF cfg.preserve_code_blocks
        THEN ProtectLoop(CodeFindIter(tables.working, 1), 1, "CODE_BLOCK", tables)
        ELSE tables

\* re.split(r'\n\n+', s)
RECURSIVE SplitParagraphs(_)
SplitParagraphs(s) ==
    LET i == Find(s, <<NL, NL>>, 1)
    IN  IF i = 0 THEN <<s>>
        ELSE <<Slice(s, 1, i - 1)>>
                 \o SplitParagraphs(Slice(s, i + RunLen(s, i, {NL}), Len(s)))

RECURSIVE restore_protected(_, _)
restore_protected(content, elements) ==
    IF elements = <<>> THEN content
    ELSE restore_protected(
             Replace(content, elements[1].placeholder, elements[1].original),
             Tail(elements))

\* Optional[str]
None == <<>>

Some(x) == <<x>>

\* Chunk(...) as built by _process_section, _split_large_section, _create_chunk
MakeChunk(content, sec, type, tables, code) ==
    [content           |-> content,
     section_path      |-> Append(sec.path, sec.title),
     section_level     |-> sec.level,
     page_number       |-> 0,
     content_type      |-> type,
     preceding_section |-> sec.preceding,
     following_section |-> sec.following,
     has_tables        |-> tables,
     has_code_blocks   |-> code,
     chunk_index       |-> 0]

create_chunk(content, sec) ==
    MakeChunk(content, sec, detect_content_type(content), sec.has_tables, sec.has_code)

\* the chunk flushed from current_chunk
Flush(current, elements, sec) ==
    create_chunk(restore_protected(Join(current, <<NL, NL>>), elements), sec)

\* the paragraph loop of _split_large_section from paragraph k on, and the
\* final flush
RECURSIVE ParagraphLoop(_, _, _, _, _, _, _, _)
ParagraphLoop(paras, k, elements, sec, cfg, out, current, size) ==
    IF k > Len(paras)
    THEN IF current # <<>> THEN Append(out, Flush(current, elements, sec)) ELSE out
    ELSE LET para      == paras[k]
             hits      == {e \in 1..Len(elements) :
                              elements[e].placeholder = Strip(para)}
             flushed   == IF current # <<>>
                          THEN Append(out, Flush(current, elements, sec)) ELSE out
         IN  IF hits # {}
             THEN LET type == elements[Min(hits)].type
                  IN  ParagraphLoop(paras, k + 1, elements, sec, cfg,
                          Append(flushed,
                              MakeChunk(restore_protected(para, elements), sec, type,
                                        type = "TABLE", type = "CODE_BLOCK")),
                          <<>>, 0)
             ELSE IF size + Len(para) > cfg.target_chunk_size /\ current # <<>>
             THEN ParagraphLoop(paras, k + 1, elements, sec, cfg,
                                flushed, <<para>>, Len(para))
             ELSE ParagraphLoop(paras, k + 1, elements, sec, cfg,
                                out, Append(current, para), size + Len(para))

split_large_section(content, sec, cfg) ==
    LET prot == Protect(content, cfg)
    IN  ParagraphLoop(SplitParagraphs(prot.working), 1, prot.elements, sec, cfg,
                      <<>>, <<>>, 0)

process_section(content, sec0, cfg) ==
    LET sec == [sec0 EXCEPT !.has_tables = HasTables(content),
                            !.has_code = HasCode(content)]
    IN  IF Len(content) <= cfg.max_chunk_size
        THEN <<MakeChunk(content, sec, detect_content_type(content),
                         sec.has_tables, sec.has_code)>>
        ELSE split_large_section(content, sec, cfg)

\* a variant of NumberChunks that restarts the numbering in every section
NumberChunksPerSection(section_chunks, chunk_index) ==
    [k \in 1..Len(section_chunks) |->
        [section_chunks[k] EXCEPT !.chunk_index = k - 1]]

\* the inner loop of segment: the chunks of one section take the next indices
NumberChunks(section_chunks, chunk_index) ==
    [k \in 1..Len(section_chunks) |->
        [section_chunks[k] EXCEPT !.chunk_index = chunk_index + k - 1]]

\* the outer loop of segment with the neighbouring titles exchanged
RECURSIVE SegmentLoopSwapped(_, _, _, _)
SegmentLoopSwapped(sections, i, chunk_index, cfg) ==
    IF i > Len(sections) THEN <<>>
    ELSE LET section == sections[i]
             sec == [title     |-> section.title,
                     level     |-> section.level,
                     path      |-> section.path,
                     preceding |-> IF i + 1 <= Len(sections)
                                   THEN Some(sections[i + 1].title) ELSE None,
                     following |-> IF i > 1 THEN Some(sections[i - 1].title) ELSE None,
                     has_tables |-> FALSE,
                     has_code   |-> FALSE]
             section_chunks == process_section(section.content, sec, cfg)
         IN  NumberChunks(section_chunks, chunk_index)
                 \o SegmentLoopSwapped(sections, i + 1,
                                       chunk_index + Len(section_chunks), cfg)

\* the outer loop of segment from section i on
RECURSIVE SegmentLoop(_, _, _, _)
SegmentLoop(sections, i, chunk_index, cfg) ==
    IF i > Len(sections) THEN <<>>
    ELSE LET section == sections[i]
             sec == [title     |-> section.title,
                     level     |-> section.level,
                     path      |-> section.path,
                     preceding |-> IF i > 1 THEN Some(sections[i - 1].title) ELSE None,
                     following |-> IF i + 1 <= Len(sections)
                                   THEN Some(sections[i + 1].title) ELSE None,
                     has_tables |-> FALSE,
                     has_code   |-> FALSE]
             section_chunks == process_section(section.content, sec, cfg)
         IN  NumberChunks(section_chunks, chunk_index)
                 \o SegmentLoop(sections, i + 1, chunk_index + Len(section_chunks), cfg)

segment(md, cfg) == SegmentLoop(SplitByHeadings(md), 1, 0, cfg)

(***************************************************************************)
(* metadata_enricher.py                                                    *)
(***************************************************************************)
enrich_single_chunk(chunk, index) == [chunk EXCEPT !.chunk_index = index]

enrich_chunks(cs) == [i \in 1..Len(cs) |-> enrich_single_chunk(cs[i], i - 1)]

(***************************************************************************)
(* heading_fixer.py                                                        *)
(***************************************************************************)
UpperChars == <<"A", "B", "C", "D", "E", "F", "G", "H", "I", "J", "K", "L", "M",
                "N", "O", "P", "Q", "R", "S", "T", "U", "V", "W", "X", "Y", "Z">>

LowerChars == <<"a", "b", "c", "d", "e", "f", "g", "h", "i", "j", "k", "l", "m",
                "n", "o", "p", "q", "r", "s", "t", "u", "v", "w", "x", "y", "z">>

\* the characters of the class [A-Z]
Upper == {UpperChars[k] : k \in 1..26}

\* str.lower()
LowerChar(c) ==
    IF c \in Upper THEN LowerChars[CHOOSE k \in 1..26 : UpperChars[k] = c] ELSE c

Lower(s) == [k \in 1..Len(s) |-> LowerChar(s[k])]

\* the text without the characters of Set
RECURSIVE Without(_, _)
Without(s, Set) ==
    IF s = <<>> THEN <<>>
    ELSE IF Head(s) \in Set THEN Without(Tail(s), Set)
    ELSE <<Head(s)>> \o Without(Tail(s), Set)

\* ' '.join(s.split())
RECURSIVE CollapseWs(_)
CollapseWs(s) ==
    LET Glue(word, rest) ==
            IF rest = <<>> THEN word ELSE word \o <<" ">> \o rest
        Split(t, w) ==
            Glue(SubSeq(t, 1, w), CollapseWs(Slice(t, w + 1, Len(t))))
        Words(t) ==
            IF t = <<>> THEN <<>> ELSE Split(t, RunLenNot(t, 1, WS))
    IN  Words(LStrip(s))

normalize_title(title) == Strip(Lower(CollapseWs(Without(title, {"*"}))))

\* _build_toc_map: a dict in insertion order; a repeated key keeps its place
\* and takes the later level
RECURSIVE build_toc_map(_, _)
build_toc_map(items, map) ==
    LET Put(key, hits) ==
            IF hits = {}
            THEN Append(map, [title |-> key, level |-> items[1].level])
            ELSE [map EXCEPT ![Min(hits)].level = items[1].level]
        Entry(key) == Put(key, {k \in 1..Len(map) : map[k].title = key})
    IN  IF items = <<>> THEN map
        ELSE build_toc_map(Tail(items), Entry(normalize_title(items[1].title)))

\* a[i..i+k-1] = b[j..j+k-1]
CommonAt(a, i, b, j, k) ==
    /\ i + k - 1 <= Len(a)
    /\ j + k - 1 <= Len(b)
    /\ \A t \in 0..(k - 1) : a[i + t] = b[j + t]

\* SequenceMatcher.find_longest_match over the whole of a and b (no junk:
\* isjunk is None and autojunk only acts on sequences of 200 or more): the
\* longest common block, the earliest in a, then the earliest in b
LongestMatch(a, b) ==
    LET PickJ(blocks, k, i) ==
            <<i, Min({blk[2] : blk \in {x \in blocks : x[3] = k /\ x[1] = i}}), k>>
        PickI(blocks, k) ==
            PickJ(blocks, k, Min({blk[1] : blk \in {x \in blocks : x[3] = k}}))
        Pick(blocks) ==
            IF blocks = {} THEN <<0, 0, 0>>
            ELSE PickI(blocks, Max({blk[3] : blk \in blocks}))
    IN  Pick({blk \in (1..Len(a)) \X (1..Len(b)) \X (1..Len(a)) :
                 CommonAt(a, blk[1], b, blk[2], blk[3])})

\* sum of the sizes of SequenceMatcher.get_matching_blocks: the longest
\* match, then the same to its left and to its right
RECURSIVE MatchingSize(_, _)
MatchingSize(a, b) ==
    LET Around(m) ==
            IF m[3] = 0 THEN 0
            ELSE m[3] + MatchingSize(Slice(a, 1, m[1] - 1), Slice(b, 1, m[2] - 1))
                      + MatchingSize(Slice(a, m[1] + m[3], Len(a)),
                                     Slice(b, m[2] + m[3], Len(b)))
    IN  IF a = <<>> \/ b = <<>> THEN 0 ELSE Around(LongestMatch(a, b))

\* SequenceMatcher(None, a, b).ratio() as the fraction 2*M/T (1.0 when T = 0)
Ratio(a, b) ==
    IF Len(a) + Len(b) = 0 THEN [num |-> 1, den |-> 1]
    ELSE [num |-> 2 * MatchingSize(a, b), den |-> Len(a) + Len(b)]

RatioGT(r, q) == r.num * q.den > q.num * r.den

RatioGE(r, q) == r.num * q.den >= q.num * r.den

\* a variant of FuzzyLoop in which a later entry of equal ratio replaces the
\* best match (>= where the code has >)
RECURSIVE FuzzyLoopLastWins(_, _, _, _, _, _)
FuzzyLoopLastWins(normalized, map, k, cfg, best_ratio, best_match) ==
    LET Try(ratio) ==
            IF RatioGE(ratio, best_ratio) /\ RatioGE(ratio, cfg.min_match_ratio)
            THEN FuzzyLoopLastWins(normalized, map, k + 1, cfg, ratio,
                                   Some(map[k].level))
            ELSE FuzzyLoopLastWins(normalized, map, k + 1, cfg, best_ratio,
                                   best_match)
    IN  IF k > Len(map) THEN best_match
        ELSE Try(Ratio(normalized, map[k].title))

\* the fuzzy loop of _find_toc_level over the entries k.. of the map
RECURSIVE FuzzyLoop(_, _, _, _, _, _)
FuzzyLoop(normalized, map, k, cfg, best_ratio, best_match) ==
    LET Try(ratio) ==
            IF RatioGT(ratio, best_ratio) /\ RatioGE(ratio, cfg.min_match_ratio)
            THEN FuzzyLoop(normalized, map, k + 1, cfg, ratio, Some(map[k].level))
            ELSE FuzzyLoop(normalized, map, k + 1, cfg, best_ratio, best_match)
    IN  IF k > Len(map) THEN best_match
        ELSE Try(Ratio(normalized, map[k].title))

find_toc_level(heading_text, map, cfg) ==
    LET Lookup(normalized, exact) ==
            IF exact # {} THEN Some(map[Min(exact)].level)
            ELSE FuzzyLoop(normalized, map, 1, cfg, [num |-> 0, den |-> 1], None)
        Exact(normalized) ==
            Lookup(normalized, {k \in 1..Len(map) : map[k].title = normalized})
    IN  Exact(normalize_title(heading_text))

\* r'#{1,6}\s+([^\n]+)' at position q, as HeadingMatchesAt without the ^
HeadingPrefixAt(s, q) ==
    /\ q <= Len(s)
    /\ RunLen(s, q, {"#"}) \in 1..6
    /\ HeadingTextStarts(s, q) # {}

\* r'\s*\n+\s*' from position p: the whole whitespace run, which must hold a
\* newline; the position after it, 0 when the run has no newline
GapEnd(s, p) ==
    LET w == RunLen(s, p, WS)
    IN  IF \E j \in p..(p + w - 1) : s[j] = NL THEN p + w ELSE 0

\* re.sub finds no match of the pattern at a position
NoMatch == [ok |-> FALSE, at |-> 0, end |-> 0, repl |-> <<>>]

\* the leading number of a split heading is absent at a position
NoNumber == [ok |-> FALSE, hashes |-> 0, digits |-> <<>>, next |-> 0]

\* r'^(#{1,6})\s+(\d+)' at position i: the number of hashes, the digits and
\* the position after them
NumberHeading(s, i) ==
    LET Found(h, w, d) ==
            IF i <= Len(s) /\ LineStart(s, i) /\ h \in 1..6 /\ w >= 1 /\ d >= 1
            THEN [ok |-> TRUE, hashes |-> h,
                  digits |-> SubSeq(s, i + h + w, i + h + w + d - 1),
                  next |-> i + h + w + d]
            ELSE NoNumber
        AfterWs(h, w) == Found(h, w, RunLen(s, i + h + w, Digits))
        AfterHashes(h) == AfterWs(h, RunLen(s, i + h, WS))
    IN  AfterHashes(RunLen(s, i, {"#"}))

\* r'^\s*\*\*(\d+)\*\*' at position i: the digits and the position after the
\* closing stars
BoldNumber(s, i) ==
    LET Found(a, d) ==
            IF /\ i <= Len(s) /\ LineStart(s, i)
               /\ HasAt(s, a, <<"*", "*">>) /\ d >= 1
               /\ HasAt(s, a + 2 + d, <<"*", "*">>)
            THEN [ok |-> TRUE, hashes |-> 0,
                  digits |-> SubSeq(s, a + 2, a + 1 + d), next |-> a + d + 4]
            ELSE NoNumber
        AfterWs(a) == Found(a, RunLen(s, a + 2, Digits))
    IN  AfterWs(i + RunLen(s, i, WS))

\* one match of pattern1, pattern2 or pattern3 of _merge_split_headings at
\* position i: [ok, at, end (last matched position), repl (the replacement)]
MergeMatch(pattern, s, i) ==
    LET Merged(n, m) ==
            [ok |-> TRUE, at |-> i, end |-> m.end,
             repl |-> Hashes(IF pattern = 1 THEN n.hashes ELSE m.level) \o <<" ">>
                       \o n.digits \o <<" ">> \o m.text]
        Title(n, q, e) ==
            IF s[q] \in Upper /\ e - q \in 1..100
            THEN [ok |-> TRUE, at |-> i, end |-> e,
                  repl |-> Hashes(n.hashes) \o <<" ">> \o n.digits \o <<" ">>
                            \o SubSeq(s, q, e)]
            ELSE NoMatch
        Second(n, q) ==
            IF q = 0 \/ q > Len(s) THEN NoMatch
            ELSE IF pattern = 2 THEN Title(n, q, LineEnd(s, q))
            ELSE IF HeadingPrefixAt(s, q) THEN Merged(n, HeadingMatch(s, q))
            ELSE NoMatch
        First(n) == IF n.ok THEN Second(n, GapEnd(s, n.next)) ELSE NoMatch
    IN  First(IF pattern = 3 THEN BoldNumber(s, i) ELSE NumberHeading(s, i))

\* re.sub(pattern, replacement, s, flags=re.MULTILINE) scanning from from
RECURSIVE MergeSub(_, _, _)
MergeSub(pattern, s, from) ==
    LET Take(m) ==
            Slice(s, from, m.at - 1) \o m.repl \o MergeSub(pattern, s, m.end + 1)
        Leftmost(ms) ==
            IF ms = {} THEN Slice(s, from, Len(s))
            ELSE Take(CHOOSE m \in ms : \A o \in ms : m.at <= o.at)
    IN  Leftmost({m \in {MergeMatch(pattern, s, i) : i \in from..Len(s)} : m.ok})

merge_split_headings(md) ==
    MergeSub(3, MergeSub(2, MergeSub(1, md, 1), 1), 1)

\* s.split('\n')
RECURSIVE SplitLines(_)
SplitLines(s) ==
    LET i == Find(s, <<NL>>, 1)
    IN  IF i = 0 THEN <<s>>
        ELSE <<Slice(s, 1, i - 1)>> \o SplitLines(Slice(s, i + 1, Len(s)))

\* re.sub(r'\*+([^*]+)\*+', r'\1', s): a run of stars, a run of other
\* characters and a run of stars become the run of other characters
RECURSIVE Debold(_)
Debold(s) ==
    LET starts == {i \in 1..Len(s) :
                      LET a == RunLen(s, i, {"*"})
                          n == RunLenNot(s, i + a, {"*"})
                      IN  a >= 1 /\ n >= 1 /\ i + a + n <= Len(s)}
    IN  IF starts = {} THEN s
        ELSE LET i == Min(starts)
                 a == RunLen(s, i, {"*"})
                 n == RunLenNot(s, i + a, {"*"})
                 c == RunLen(s, i + a + n, {"*"})
             IN  Slice(s, 1, i - 1) \o SubSeq(s, i + a, i + a + n - 1)
                     \o Debold(Slice(s, i + a + n + c, Len(s)))

\* re.match(r'^\s*\*\*([^*]+)\*\*\s*$', line): the text between the stars,
\* or None
BoldLineText(line) ==
    LET a == 1 + RunLen(line, 1, WS)
        n == RunLenNot(line, a + 2, {"*"})
        z == a + 2 + n
    IN  IF /\ HasAt(line, a, <<"*", "*">>)
           /\ n >= 1
           /\ HasAt(line, z, <<"*", "*">>)
           /\ \A j \in (z + 2)..Len(line) : line[j] \in WS
        THEN Some(SubSeq(line, a + 2, z - 1)) ELSE None

TableWord == <<"t", "a", "b", "l", "e">>

\* a variant of FixLine that cleans a matched heading but keeps the level it
\* was written with
FixLineKeepsLevel(line, map, cfg) ==
    IF HeadingMatchesAt(line, 1)
    THEN LET m          == HeadingMatch(line, 1)
             clean_text == IF cfg.remove_bold_from_headings
                           THEN Strip(Debold(m.text)) ELSE m.text
         IN  IF find_toc_level(m.text, map, cfg) # None \/ cfg.remove_bold_from_headings
             THEN Hashes(m.level) \o <<" ">> \o clean_text
             ELSE line
    ELSE IF BoldLineText(line) # None
    THEN LET text      == Strip(BoldLineText(line)[1])
             toc_level == find_toc_level(text, map, cfg)
         IN  IF HasAt(Lower(text), 1, TableWord) THEN line
             ELSE IF toc_level # None
             THEN Hashes(toc_level[1]) \o <<" ">> \o text
             ELSE line
    ELSE line

\* the body of the loop of fix_headings for one line
FixLine(line, map, cfg) ==
    IF HeadingMatchesAt(line, 1)
    THEN LET m            == HeadingMatch(line, 1)
             heading_text == m.text
             clean_text   == IF cfg.remove_bold_from_headings
                             THEN Strip(Debold(heading_text)) ELSE heading_text
             toc_level    == find_toc_level(heading_text, map, cfg)
         IN  IF toc_level # None
             THEN Hashes(toc_level[1]) \o <<" ">> \o clean_text
             ELSE IF cfg.remove_bold_from_headings
             THEN Hashes(m.level) \o <<" ">> \o clean_text
             ELSE line
    ELSE IF BoldLineText(line) # None
    THEN LET text      == Strip(BoldLineText(line)[1])
             toc_level == find_toc_level(text, map, cfg)
         IN  IF HasAt(Lower(text), 1, TableWord) THEN line
             ELSE IF toc_level # None
             THEN Hashes(toc_level[1]) \o <<" ">> \o text
             ELSE line
    ELSE line

\* markdown.replace('\r\n', '\n').replace('\r', '\n')
NormalizeLineEndings(md) == Replace(Replace(md, <<"\r", NL>>, <<NL>>), <<"\r">>, <<NL>>)

fix_headings(md, map, cfg) ==
    LET merged == merge_split_headings(NormalizeLineEndings(md))
        lines  == SplitLines(merged)
        fixed  == [k \in 1..Len(lines) |-> FixLine(lines[k], map, cfg)]
    IN  merge_split_headings(Join(fixed, <<NL>>))

(***************************************************************************)
(* markdown_cleanup.py                                                     *)
(***************************************************************************)
Stars2 == <<"*", "*">>

\* a leader of six dots where the code asks for five
Dots6 == <<".", ".", ".", ".", ".", ".">>

Dots5 == <<".", ".", ".", ".", ".">>

Blanks == {" ", "\t"}

ListMarkers == {"-", "*", "+"}

\* the bullet characters of bullet_chars, one name for each code point:
\* U+25CF, U+25CB, U+25A0, U+2022, U+25AA, U+2023, U+2043
BulletChars == {"U25CF", "U25CB", "U25A0", "U2022", "U25AA", "U2023", "U2043"}

\* the result of trying one pattern at one position: whether it matches, the
\* position after the match and the text that replaces the match
NoSub == [ok |-> FALSE, next |-> 0, repl |-> <<>>]

\* a match that ends before position next (0: no match) replaced by repl
SubTo(next, repl) ==
    IF next = 0 THEN NoSub ELSE [ok |-> TRUE, next |-> next, repl |-> repl]

\* r'\s*$' (re.MULTILINE) from position z: the longest run of whitespace
\* after which the line or the text ends; the position after it, 0 if none
TailEnd(s, z) ==
    LET Last(ends) == IF z > Len(s) + 1 \/ ends = {} THEN 0 ELSE z + Max(ends)
        Run(w) == Last({x \in 0..w : z + x > Len(s) \/ s[z + x] = NL})
    IN  Run(RunLen(s, z, WS))

\* str.isdigit() on ASCII text
IsDigitStr(x) == x # <<>> /\ \A j \in 1..Len(x) : x[j] \in Digits

\* common_sections of _remove_page_footers, lower-cased
CommonSections ==
    { <<"c", "o", "n", "t", "e", "n", "t", "s">>,
      <<"o", "v", "e", "r", "v", "i", "e", "w", " ", "o", "f", " ", "i", "d", "r", "a", "c">>,
      <<"l", "o", "g", "g", "i", "n", "g", " ", "i", "n", " ", "t", "o", " ", "i", "d", "r", "a", "c">>,
      <<"s", "e", "t", "t", "i", "n", "g", " ", "u", "p", " ", "m", "a", "n", "a", "g", "e", "d", " ", "s", "y", "s", "t", "e", "m">>,
      <<"c", "o", "n", "f", "i", "g", "u", "r", "i", "n", "g", " ", "i", "d", "r", "a", "c">>,
      <<"m", "a", "n", "a", "g", "i", "n", "g", " ", "l", "o", "g", "s">>,
      <<"t", "r", "o", "u", "b", "l", "e", "s", "h", "o", "o", "t", "i", "n", "g">>,
      <<"c", "h", "a", "p", "t", "e", "r">>,
      <<"r", "e", "v", ".">>,
      <<"r", "e", "v", "i", "s", "i", "o", "n", " ", "h", "i", "s", "t", "o", "r", "y">>,
      <<"d", "e", "c", "e", "m", "b", "e", "r", " ", "2", "0", "2", "5">>,
      <<"r", "e", "v", ".", " ", "a", "1", "1">> }

FooterTextLimit == 50

\* footer_callback on the groups (g1, g2) of a match whose text is full:
\* the replacement text
footer_callback(g1, g2, full) ==
    LET Decide(clean_text) ==
            IF \/ \E c \in CommonSections : Contains(Lower(clean_text), c)
               \/ Len(clean_text) < FooterTextLimit
            THEN <<>> ELSE full
        \* tn = <<text, num>>, both empty when neither was identified
        Check(tn) ==
            IF tn[1] = <<>> \/ tn[2] = <<>> THEN full ELSE Decide(Strip(tn[1]))
        Groups(d1, d2) ==
            IF d1 /\ ~d2 THEN <<g2, g1>>
            ELSE IF d2 /\ ~d1 THEN <<g1, g2>>
            ELSE IF IsDigitStr(Strip(g1)) THEN <<g2, g1>>
            ELSE IF IsDigitStr(Strip(g2)) THEN <<g1, g2>>
            ELSE <<<<>>, <<>>>>
    IN  Check(Groups(IsDigitStr(g1), IsDigitStr(g2)))

\* the lengths (.*?) may take from position b on its line, shortest first
LazySpans(s, b) == 0..(LineEnd(s, b) - b + 1)

\* the part of pattern A after (.*?), from position c:
\* r'\*\*\s+\*\*(\d{1,4})\*\*\s*$'; the position after the match (0: none)
\* and the digits
FooterRestA(s, c) ==
    LET Number(w, d) ==
            IF /\ w >= 1 /\ HasAt(s, c + 2 + w, Stars2) /\ d \in 1..4
               /\ HasAt(s, c + 4 + w + d, Stars2)
            THEN [next |-> TailEnd(s, c + 6 + w + d),
                  num |-> SubSeq(s, c + 4 + w, c + 3 + w + d)]
            ELSE [next |-> 0, num |-> <<>>]
        Gap(w) == Number(w, RunLen(s, c + 4 + w, Digits))
    IN  IF HasAt(s, c, Stars2) THEN Gap(RunLen(s, c + 2, WS))
        ELSE [next |-> 0, num |-> <<>>]

\* the part of pattern B after (.*?), from position c: r'\*\*\s*$'
FooterRestB(s, c) == IF HasAt(s, c, Stars2) THEN TailEnd(s, c + 2) ELSE 0

\* Pattern A: r'^\s*\*\*(.*?)\*\*\s+\*\*(\d{1,4})\*\*\s*$' at position i
FooterMatchA(s, i) ==
    LET Found(a, x) ==
            [ok |-> TRUE, next |-> x.rest.next,
             repl |-> footer_callback(Slice(s, a + 2, x.c - 1), x.rest.num,
                                      SubSeq(s, i, x.rest.next - 1))]
        Shortest(a, xs) ==
            IF xs = {} THEN NoSub
            ELSE Found(a, CHOOSE x \in xs : \A y \in xs : x.c <= y.c)
        Open(a) ==
            IF LineStart(s, i) /\ HasAt(s, a, Stars2)
            THEN Shortest(a, {x \in {[c |-> a + 2 + g, rest |-> FooterRestA(s, a + 2 + g)] :
                                        g \in LazySpans(s, a + 2)} : x.rest.next # 0})
            ELSE NoSub
    IN  Open(i + RunLen(s, i, WS))

\* Pattern B: r'^\s*\*\*(\d{1,4})\*\*\s+\*\*(.*?)\*\*\s*$' at position i
FooterMatchB(s, i) ==
    LET Found(num, b, x) ==
            [ok |-> TRUE, next |-> x.next,
             repl |-> footer_callback(num, Slice(s, b, x.c - 1),
                                      SubSeq(s, i, x.next - 1))]
        Shortest(num, b, xs) ==
            IF xs = {} THEN NoSub
            ELSE Found(num, b, CHOOSE x \in xs : \A y \in xs : x.c <= y.c)
        Text(num, b) ==
            Shortest(num, b, {x \in {[c |-> b + g, next |-> FooterRestB(s, b + g)] :
                                        g \in LazySpans(s, b)} : x.next # 0})
        Gap(a, d, w) ==
            IF /\ HasAt(s, a + 2 + d, Stars2) /\ w >= 1
               /\ HasAt(s, a + 4 + d + w, Stars2)
            THEN Text(SubSeq(s, a + 2, a + 1 + d), a + 6 + d + w)
            ELSE NoSub
        Number(a, d) ==
            IF d \in 1..4 THEN Gap(a, d, RunLen(s, a + 4 + d, WS)) ELSE NoSub
        Open(a) ==
            IF LineStart(s, i) /\ HasAt(s, a, Stars2)
            THEN Number(a, RunLen(s, a + 2, Digits)) ELSE NoSub
    IN  Open(i + RunLen(s, i, WS))

\* Pattern 3: r'^\s*\*\*\d{1,4}\*\*\s*$' at position i, replaced by ''
BoldPageNumberMatch(s, i) ==
    LET Number(a, d) ==
            IF /\ LineStart(s, i) /\ HasAt(s, a, Stars2) /\ d \in 1..4
               /\ HasAt(s, a + 2 + d, Stars2)
            THEN SubTo(TailEnd(s, a + 4 + d), <<>>) ELSE NoSub
        Open(a) == Number(a, RunLen(s, a + 2, Digits))
    IN  Open(i + RunLen(s, i, WS))

\* r'^\d{1,4}\s*$' at position i, replaced by ''
OrphanNumberMatch(s, i) ==
    LET Number(d) ==
            IF LineStart(s, i) /\ d \in 1..4
            THEN SubTo(TailEnd(s, i + d), <<>>) ELSE NoSub
    IN  Number(RunLen(s, i, Digits))

\* r'\*{4,}([^*]+)\*{4,}' at position i, replaced by r'**\1**'
DoubleBoldMatch(s, i) ==
    LET Close(a, n, c) ==
            IF a >= 4 /\ n >= 1 /\ c >= 4
            THEN SubTo(i + a + n + c,
                       Stars2 \o SubSeq(s, i + a, i + a + n - 1) \o Stars2)
            ELSE NoSub
        Text(a, n) == Close(a, n, RunLen(s, i + a + n, {"*"}))
        Open(a) == Text(a, RunLenNot(s, i + a, {"*"}))
    IN  Open(RunLen(s, i, {"*"}))

\* r'^[\-_\*]{3,}\s*$' at position i, replaced by '---'
RuleMatch(s, i) ==
    LET Rule(r) ==
            IF LineStart(s, i) /\ r >= 3
            THEN SubTo(TailEnd(s, i + r), <<"-", "-", "-">>) ELSE NoSub
    IN  Rule(RunLen(s, i, {"-", "_", "*"}))

\* '.....' in x and re.search(r'\d+', x)
DotLeaderAndDigit(x) ==
    Contains(x, Dots5) /\ \E j \in 1..Len(x) : x[j] \in Digits

\* toc_pattern r'^.*?\.\.\.\.\.+.*?\d+.*$' at position i: the whole line, when
\* it holds five dots and a digit after them; replaced by ''
TocLineMatch(s, i) ==
    LET Line(e, d) ==
            IF /\ i <= Len(s) /\ LineStart(s, i)
               /\ d # 0 /\ d + 4 <= e
               /\ \E j \in (d + 5)..e : s[j] \in Digits
            THEN SubTo(e + 1, <<>>) ELSE NoSub
    IN  Line(LineEnd(s, i), Find(s, Dots5, i))

\* aggressive_toc_callback on the text of a match
aggressive_toc_callback(text) == IF DotLeaderAndDigit(text) THEN <<>> ELSE text

\* r'\*\*.*?\*\*' (re.DOTALL) at position i with aggressive_toc_callback
BoldBlockMatch(s, i) ==
    LET Block(j) ==
            IF HasAt(s, i, Stars2) /\ j # 0
            THEN SubTo(j + 2, aggressive_toc_callback(SubSeq(s, i, j + 1)))
            ELSE NoSub
    IN  Block(Find(s, Stars2, i + 2))

\* r'^\s*\.\.\.\.\.\.+\s*$' at position i, replaced by ''
DotLineMatch(s, i) ==
    LET Dots(a, d) ==
            IF LineStart(s, i) /\ d >= 6
            THEN SubTo(TailEnd(s, a + d), <<>>) ELSE NoSub
        Open(a) == Dots(a, RunLen(s, a, {"."}))
    IN  Open(i + RunLen(s, i, WS))

\* r'(?:<br/?>\s*)*' from position p: the position after it
RECURSIVE BreaksEnd(_, _)
BreaksEnd(s, p) ==
    IF HasAt(s, p, <<"<", "b", "r", ">">>)
    THEN BreaksEnd(s, p + 4 + RunLen(s, p + 4, WS))
    ELSE IF HasAt(s, p, <<"<", "b", "r", "/", ">">>)
    THEN BreaksEnd(s, p + 5 + RunLen(s, p + 5, WS))
    ELSE p

\* rf'{bullet_chars}\s*(?:<br/?>\s*)+' at position i, replaced by '- '
BulletBreakMatch(s, i) ==
    LET Breaks(b, next) ==
            IF i <= Len(s) /\ s[i] \in BulletChars /\ next > b
            THEN SubTo(next, <<"-", " ">>) ELSE NoSub
        Bullet(b) == Breaks(b, BreaksEnd(s, b))
    IN  Bullet(i + 1 + RunLen(s, i + 1, WS))

\* rf'(^|[| \t]){bullet_chars}[ \t]*' at position i, replaced by r'\1- '
BulletMatch(s, i) ==
    IF i <= Len(s) /\ LineStart(s, i) /\ s[i] \in BulletChars
    THEN SubTo(i + 1 + RunLen(s, i + 1, Blanks), <<"-", " ">>)
    ELSE IF i < Len(s) /\ s[i] \in {"|", " ", "\t"} /\ s[i + 1] \in BulletChars
    THEN SubTo(i + 2 + RunLen(s, i + 2, Blanks), <<s[i], "-", " ">>)
    ELSE NoSub

\* r'^- +- ' at position i, replaced by '- '
DoubleDashMatch(s, i) ==
    LET Dash(k) ==
            IF /\ LineStart(s, i) /\ HasAt(s, i, <<"-">>) /\ k >= 1
               /\ HasAt(s, i + 1 + k, <<"-", " ">>)
            THEN SubTo(i + 3 + k, <<"-", " ">>) ELSE NoSub
    IN  Dash(RunLen(s, i + 1, {" "}))

\* r'\| +- +- ' at position i, replaced by '| - '
PipeDoubleDashMatch(s, i) ==
    LET Second(k, j) ==
            IF /\ HasAt(s, i, <<"|">>) /\ k >= 1 /\ HasAt(s, i + 1 + k, <<"-">>)
               /\ j >= 1 /\ HasAt(s, i + 2 + k + j, <<"-", " ">>)
            THEN SubTo(i + 4 + k + j, <<"|", " ", "-", " ">>) ELSE NoSub
        First(k) == Second(k, RunLen(s, i + 2 + k, {" "}))
    IN  First(RunLen(s, i + 1, {" "}))

\* r'[ \t]*([-*+]|\d+\.)' matches at position p
ListItemAt(s, p) ==
    LET Numbered(q, d) == d >= 1 /\ HasAt(s, q + d, <<".">>)
        Item(q) ==
            \/ (q <= Len(s) /\ s[q] \in ListMarkers)
            \/ Numbered(q, RunLen(s, q, Digits))
    IN  Item(p + RunLen(s, p, Blanks))

\* r'([ \t]*\n)*' from position b: the position after the last blank line
RECURSIVE BlankLinesEnd(_, _)
BlankLinesEnd(s, b) ==
    LET Line(r) ==
            IF HasAt(s, b + r, <<NL>>) THEN BlankLinesEnd(s, b + r + 1) ELSE b
    IN  Line(RunLen(s, b, Blanks))

\* r'^([ \t]*[-*+]|\d+\.)[ \t]+(.*?)\n([ \t]*\n)+(?=[ \t]*([-*+]|\d+\.))'
\* at position i, replaced by r'\1 \2\n'
ListSpacingMatch(s, i) ==
    LET Tight(g, b, e, p) ==
            IF HasAt(s, e + 1, <<NL>>) /\ p > e + 2 /\ ListItemAt(s, p)
            THEN SubTo(p, SubSeq(s, i, g - 1) \o <<" ">> \o Slice(s, b, e) \o <<NL>>)
            ELSE NoSub
        Line(g, b, e) == Tight(g, b, e, BlankLinesEnd(s, e + 2))
        Text(g, t) ==
            IF t >= 1 THEN Line(g, g + t, LineEnd(s, g + t)) ELSE NoSub
        Marker(g) ==
            IF LineStart(s, i) /\ g # 0 THEN Text(g, RunLen(s, g, Blanks))
            ELSE NoSub
        Start(sp, d) ==
            Marker(IF i + sp <= Len(s) /\ s[i + sp] \in ListMarkers THEN i + sp + 1
                   ELSE IF d >= 1 /\ HasAt(s, i + d, <<".">>) THEN i + d + 1
                   ELSE 0)
    IN  Start(RunLen(s, i, Blanks), RunLen(s, i, Digits))

\* r'[ \t]+$' (re.MULTILINE) at position i, replaced by ''
TrailingBlanksMatch(s, i) ==
    LET Run(r) ==
            IF r >= 1 /\ (i + r > Len(s) \/ s[i + r] = NL)
            THEN SubTo(i + r, <<>>) ELSE NoSub
    IN  Run(RunLen(s, i, Blanks))

\* re.sub(pattern, repl, s) from position from on, found[i] being what the
\* pattern matches at position i of s and the replacement of that match: the
\* matches are taken left to right, each search starting where the last
\* match ended
RECURSIVE Sub(_, _, _)
Sub(found, s, from) ==
    LET Take(i) ==
            Slice(s, from, i - 1) \o found[i].repl \o Sub(found, s, found[i].next)
        Leftmost(at) ==
            IF at = {} THEN Slice(s, from, Len(s)) ELSE Take(Min(at))
    IN  Leftmost({i \in from..Len(s) : found[i].ok})

remove_page_footers(md) ==
    LET Pattern3(t) == Sub([i \in 1..Len(t) |-> BoldPageNumberMatch(t, i)], t, 1)
        PatternB(t) == Pattern3(Sub([i \in 1..Len(t) |-> FooterMatchB(t, i)], t, 1))
        PatternA(t) == PatternB(Sub([i \in 1..Len(t) |-> FooterMatchA(t, i)], t, 1))
    IN  PatternA(NormalizeLineEndings(md))

remove_orphan_page_numbers(md) ==
    Sub([i \in 1..Len(md) |-> OrphanNumberMatch(md, i)], md, 1)

\* the lines _fix_broken_sentences appends unchanged
SkippedLine(line) ==
    LET Skipped(t) ==
            \/ t = <<>>
            \/ t[1] \in {"#", "-", "|", ">"}
            \/ (t[1] = "*" /\ ~HasAt(t, 1, Stars2))
            \/ HasAt(t, 1, Fence)
    IN  Skipped(Strip(line))

\* the lines a broken word is not continued on
SpecialNextLine(t) ==
    t = <<>> \/ t[1] \in {"#", "-", "|", ">"} \/ HasAt(t, 1, Fence)

\* str.islower() of one character
IsLower(c) == \E k \in 1..26 : LowerChars[k] = c

\* the while loop of _fix_broken_sentences over lines, from index i
RECURSIVE FixBrokenLoop(_, _)
FixBrokenLoop(lines, i) ==
    LET Kept == <<lines[i]>> \o FixBrokenLoop(lines, i + 1)
        Joined(cut, next_line) ==
            <<Slice(cut, 1, Len(cut) - 1) \o next_line>>
                \o FixBrokenLoop([lines EXCEPT ![i + 1] = <<>>], i + 1)
        Continue(cut, next_line) ==
            IF /\ ~SpecialNextLine(next_line)
               /\ cut # <<>> /\ cut[Len(cut)] = "-"
               /\ IsLower(next_line[1])
            THEN Joined(cut, next_line) ELSE Kept
    IN  IF i > Len(lines) THEN <<>>
        ELSE IF SkippedLine(lines[i]) \/ i + 1 > Len(lines) THEN Kept
        ELSE Continue(RStrip(lines[i]), Strip(lines[i + 1]))

fix_broken_sentences(md) == Join(FixBrokenLoop(SplitLines(md), 1), <<NL>>)

cleanup_bold(md) == Sub([i \in 1..Len(md) |-> DoubleBoldMatch(md, i)], md, 1)

normalize_hr(md) == Sub([i \in 1..Len(md) |-> RuleMatch(md, i)], md, 1)

trim_trailing_whitespace(md) ==
    LET Trimmed(lines) == [k \in 1..Len(lines) |-> RStrip(lines[k])]
    IN  Join(Trimmed(SplitLines(md)), <<NL>>)

merge_cleaner(line) == IF DotLeaderAndDigit(line) THEN <<>> ELSE line

remove_redundant_toc(md) ==
    LET Cleaned(lines) == [k \in 1..Len(lines) |-> merge_cleaner(lines[k])]
        Merged(t) == Join(Cleaned(SplitLines(t)), <<NL>>)
        DotLines(t) == Merged(Sub([i \in 1..Len(t) |-> DotLineMatch(t, i)], t, 1))
        BoldBlocks(t) ==
            DotLines(Sub([i \in 1..Len(t) |-> BoldBlockMatch(t, i)], t, 1))
    IN  BoldBlocks(Sub([i \in 1..Len(md) |-> TocLineMatch(md, i)], md, 1))

normalize_bullets(md) ==
    LET PipeDashes(t) == Sub([i \in 1..Len(t) |-> PipeDoubleDashMatch(t, i)], t, 1)
        Dashes(t) == PipeDashes(Sub([i \in 1..Len(t) |-> DoubleDashMatch(t, i)], t, 1))
        Bullets(t) == Dashes(Sub([i \in 1..Len(t) |-> BulletMatch(t, i)], t, 1))
    IN  Bullets(Sub([i \in 1..Len(md) |-> BulletBreakMatch(md, i)], md, 1))

\* str.lstrip('\n')
LStripNL(s) == Slice(s, RunLen(s, 1, {NL}) + 1, Len(s))

normalize_blank_lines(md) ==
    LET Stripped(t) == RStrip(LStripNL(t)) \o <<NL>>
        Trailing(t) ==
            Stripped(Sub([i \in 1..Len(t) |-> TrailingBlanksMatch(t, i)], t, 1))
    IN  Trailing(Sub([i \in 1..Len(md) |-> ListSpacingMatch(md, i)], md, 1))

\* CleanupConfig(): the defaults of the dataclass
CleanupConfig ==
    [max_consecutive_blanks     |-> 1,
     remove_page_footers        |-> TRUE,
     remove_orphan_page_numbers |-> TRUE,
     normalize_hr               |-> TRUE,
     fix_broken_sentences       |-> TRUE,
     cleanup_bold               |-> TRUE,
     trim_trailing_whitespace   |-> TRUE,
     remove_redundant_toc       |-> TRUE]

\* MarkdownCleanup(cfg).clean(md): the steps in the order of the code, each
\* on the result of the one before
clean(md, cfg) ==
    LET Step8(r) == normalize_blank_lines(normalize_bullets(r))
        Step7(r) ==
            Step8(IF cfg.remove_redundant_toc THEN remove_redundant_toc(r) ELSE r)
        Step6(r) ==
            Step7(IF cfg.trim_trailing_whitespace
                  THEN trim_trailing_whitespace(r) ELSE r)
        Step5(r) == Step6(IF cfg.normalize_hr THEN normalize_hr(r) ELSE r)
        Step4(r) == Step5(IF cfg.cleanup_bold THEN cleanup_bold(r) ELSE r)
        Step3(r) ==
            Step4(IF cfg.fix_broken_sentences THEN fix_broken_sentences(r) ELSE r)
        Step2(r) ==
            Step3(IF cfg.remove_orphan_page_numbers
                  THEN remove_orphan_page_numbers(r) ELSE r)
        Step1(r) ==
            Step2(IF cfg.remove_page_footers THEN remove_page_footers(r) ELSE r)
    IN  Step1(md)

(***************************************************************************)
(* table_merger.py                                                         *)
(***************************************************************************)
\* TableMergerConfig(): the defaults of the dataclass
TableMergerConfig ==
    [max_gap_lines    |-> 5,
     strict_gap_check |-> FALSE,
     min_column_match |-> [num |-> 8, den |-> 10]]

\* s.split(ch) for a character ch
RECURSIVE SplitOn(_, _)
SplitOn(s, ch) ==
    LET Cut(i) ==
            IF i = 0 THEN <<s>>
            ELSE <<Slice(s, 1, i - 1)>> \o SplitOn(Slice(s, i + 1, Len(s)), ch)
    IN  Cut(Find(s, <<ch>>, 1))

\* [c.strip() for c in cells if c.strip()]
RECURSIVE StrippedCells(_)
StrippedCells(cells) ==
    LET Keep(c) == IF c = <<>> THEN <<>> ELSE <<c>>
    IN  IF cells = <<>> THEN <<>>
        ELSE Keep(Strip(cells[1])) \o StrippedCells(Tail(cells))

\* the entry of _find_tables for the match of table_pattern from position i
\* to position e: start is the first position of the match and end the last
\* (counting from 1, so end is match.end() and start is match.start() + 1)
TableInfo(s, i, e) ==
    LET Info(rows, cols) ==
            [start       |-> i,
             end         |-> e,
             text        |-> SubSeq(s, i, e),
             header      |-> rows[1],
             header_cols |-> cols,
             col_count   |-> Len(cols),
             row_count   |-> Len(rows) - 2,
             rows        |-> Slice(rows, 3, Len(rows))]
        Parsed(rows) == Info(rows, StrippedCells(SplitOn(rows[1], "|")))
    IN  Parsed(SplitLines(Strip(SubSeq(s, i, e))))

\* _find_tables: the matches of table_pattern.finditer(markdown) from from on
RECURSIVE find_tables(_, _)
find_tables(s, from) ==
    LET Match(i, e) == <<TableInfo(s, i, e)>> \o find_tables(s, e + 1)
        First(i) == Match(i, TableMatchEnd(s, i))
        Leftmost(starts) == IF starts = {} THEN <<>> ELSE First(Min(starts))
    IN  Leftmost({i \in from..Len(s) : TableMatchesAt(s, i)})

\* r'\*\*[^*]+\*\*\s*\*\*\d+\*\*' at position i, replaced by ''
GapFooterMatch(s, i) ==
    LET Number(q, d) ==
            IF d >= 1 /\ HasAt(s, q + d, Stars2) THEN SubTo(q + d + 2, <<>>)
            ELSE NoSub
        Second(q) ==
            IF HasAt(s, q, Stars2) THEN Number(q + 2, RunLen(s, q + 2, Digits))
            ELSE NoSub
        Closed(c) ==
            IF HasAt(s, c, Stars2) THEN Second(c + 2 + RunLen(s, c + 2, WS))
            ELSE NoSub
        Text(n) == IF n >= 1 THEN Closed(i + 2 + n) ELSE NoSub
    IN  IF HasAt(s, i, Stars2) THEN Text(RunLenNot(s, i + 2, {"*"})) ELSE NoSub

\* r'\*\*\d+\*\*' at position i, replaced by ''
GapBoldNumberMatch(s, i) ==
    LET Number(d) ==
            IF d >= 1 /\ HasAt(s, i + 2 + d, Stars2) THEN SubTo(i + d + 4, <<>>)
            ELSE NoSub
    IN  IF HasAt(s, i, Stars2) THEN Number(RunLen(s, i + 2, Digits)) ELSE NoSub

\* r'^\d+$' (re.MULTILINE) at position i, replaced by ''
GapNumberLineMatch(s, i) ==
    LET Number(d) ==
            IF d >= 1 /\ (i + d > Len(s) \/ s[i + d] = NL) THEN SubTo(i + d, <<>>)
            ELSE NoSub
    IN  IF LineStart(s, i) THEN Number(RunLen(s, i, Digits)) ELSE NoSub

\* r'\*\*\s*\*\*' at position i, replaced by ''
GapEmptyBoldMatch(s, i) ==
    LET Closed(c) == IF HasAt(s, c, Stars2) THEN SubTo(c + 2, <<>>) ELSE NoSub
    IN  IF HasAt(s, i, Stars2) THEN Closed(i + 2 + RunLen(s, i + 2, WS)) ELSE NoSub

\* len([l for l in lines if l.strip()])
NonBlankCount(lines) == Cardinality({k \in 1..Len(lines) : Strip(lines[k]) # <<>>})

is_valid_gap(gap, cfg) ==
    LET Decide(cleaned) ==
            IF Strip(cleaned) = <<>> THEN TRUE
            ELSE IF NonBlankCount(SplitLines(cleaned)) <= cfg.max_gap_lines
            THEN ~cfg.strict_gap_check
            ELSE FALSE
        EmptyBold(t) == Decide(Sub([i \in 1..Len(t) |-> GapEmptyBoldMatch(t, i)], t, 1))
        NumberLines(t) ==
            EmptyBold(Sub([i \in 1..Len(t) |-> GapNumberLineMatch(t, i)], t, 1))
        BoldNumbers(t) ==
            NumberLines(Sub([i \in 1..Len(t) |-> GapBoldNumberMatch(t, i)], t, 1))
    IN  BoldNumbers(Sub([i \in 1..Len(gap) |-> GapFooterMatch(gap, i)], gap, 1))

\* continuation_markers of _is_continuation_table
ContinuationMarkers ==
    { <<"c", "o", "n", "t", "i", "n", "u", "e", "d">>, <<"c", "o", "n", "t", ".">>,
      <<"(", "c", "o", "n", "t", ")">>, <<".", ".", ".">> }

is_continuation_table(table1, table2, cfg) ==
    LET Similar(matches) ==
            /\ table1.col_count > 0
            /\ matches * cfg.min_column_match.den
                   >= cfg.min_column_match.num * table1.col_count
        Zipped(n) ==
            Similar(Cardinality({k \in 1..n :
                Lower(table1.header_cols[k]) = Lower(table2.header_cols[k])}))
        Marked(header_text) == \E m \in ContinuationMarkers : Contains(header_text, m)
    IN  \/ table1.header_cols = table2.header_cols
        \/ Marked(Lower(Join(table2.header_cols, <<" ">>)))
        \/ /\ table1.col_count = table2.col_count
           /\ Zipped(table1.col_count)

\* _should_merge without the check of the gap
should_merge_any_gap(table1, table2, md, cfg) ==
    /\ table1.col_count = table2.col_count
    /\ is_continuation_table(table1, table2, cfg)

should_merge(table1, table2, md, cfg) ==
    /\ table1.col_count = table2.col_count
    /\ is_valid_gap(Slice(md, table1.end + 1, table2.start - 1), cfg)
    /\ is_continuation_table(table1, table2, cfg)

\* the loop of _identify_merge_candidates from table i on, skip holding the
\* indices already taken as the second table of a merge
RECURSIVE identify_merge_candidates(_, _, _, _, _)
identify_merge_candidates(tables, i, skip, md, cfg) ==
    IF i > Len(tables) - 1 THEN <<>>
    ELSE IF i \notin skip /\ should_merge(tables[i], tables[i + 1], md, cfg)
    THEN <<[first_table  |-> tables[i],
            second_table |-> tables[i + 1],
            first_end    |-> tables[i].end,
            second_start |-> tables[i + 1].start,
            second_end   |-> tables[i + 1].end]>>
             \o identify_merge_candidates(tables, i + 1, skip \cup {i + 1}, md, cfg)
    ELSE identify_merge_candidates(tables, i + 1, skip, md, cfg)

apply_merge(md, merge) ==
    LET Built(merged_rows) ==
            IF merged_rows # <<>>
            THEN Slice(md, 1, merge.first_end - 1) \o <<NL>> \o merged_rows
                     \o Slice(md, merge.second_end + 1, Len(md))
            ELSE Slice(md, 1, merge.second_start - 1)
                     \o Slice(md, merge.second_end + 1, Len(md))
        HeaderAsData(all) ==
            IF Len(all) > 2 THEN <<all[1]>> \o Slice(all, 3, Len(all)) ELSE <<>>
        RowsToAdd(table1, table2) ==
            IF table1.header_cols = table2.header_cols THEN table2.rows
            ELSE HeaderAsData(SplitLines(Strip(table2.text)))
    IN  Built(Join(RowsToAdd(merge.first_table, merge.second_table), <<NL>>))

\* for merge in reversed(merges): result = self._apply_merge(result, merge)
RECURSIVE ApplyMerges(_, _, _)
ApplyMerges(md, merges, k) ==
    IF k = 0 THEN md ELSE ApplyMerges(apply_merge(md, merges[k]), merges, k - 1)

merge_tables(md, cfg) ==
    LET Merged(merges) == ApplyMerges(md, merges, Len(merges))
        Found(tables) ==
            IF Len(tables) < 2 THEN md
            ELSE Merged(identify_merge_candidates(tables, 1, {}, md, cfg))
    IN  Found(find_tables(md, 1))

(***************************************************************************)
(* link_fixer.py                                                           *)
(***************************************************************************)
\* LinkFixerConfig(): the defaults of the dataclass (base_url is None)
LinkFixerConfig ==
    [fix_broken_urls        |-> TRUE,
     normalize_url_case     |-> TRUE,
     remove_tracking_params |-> FALSE,
     base_url               |-> <<>>]

\* the characters of the class [a-zA-Z]
Letters == Upper \cup {LowerChars[k] : k \in 1..26}

\* the characters of the class [a-zA-Z0-9/\-_.?=&%#]
UrlTailChars == Letters \cup Digits \cup {"/", "-", "_", ".", "?", "=", "&", "%", "#"}

\* re.search(r'\[[^\]]+\]\([^)]+$', line) for a line without "\n"
EndsInOpenLink(line) ==
    LET Url(u) == u <= Len(line) /\ RunLenNot(line, u, {")"}) = Len(line) - u + 1
        Text(c) == HasAt(line, c, <<"]", "(">>) /\ Url(c + 2)
        Opened(p, n) == n >= 1 /\ Text(p + 1 + n)
    IN  \E p \in 1..Len(line) :
            line[p] = "[" /\ Opened(p, RunLenNot(line, p + 1, {"]"}))

\* re.match(r'^[a-zA-Z0-9/\-_.?=&%#]+\)', next_line)
ContinuesUrl(next_line) ==
    LET Closed(n) == n >= 1 /\ HasAt(next_line, n + 1, <<")">>)
    IN  Closed(RunLen(next_line, 1, UrlTailChars))

\* the while loop of _fix_broken_urls from line i on
RECURSIVE BrokenUrlLoop(_, _)
BrokenUrlLoop(lines, i) ==
    IF i > Len(lines) THEN <<>>
    ELSE IF /\ i + 1 <= Len(lines)
            /\ EndsInOpenLink(lines[i])
            /\ ContinuesUrl(Strip(lines[i + 1]))
    THEN <<lines[i] \o Strip(lines[i + 1])>> \o BrokenUrlLoop(lines, i + 2)
    ELSE <<lines[i]>> \o BrokenUrlLoop(lines, i + 1)

fix_broken_urls(md) == Join(BrokenUrlLoop(SplitLines(md), 1), <<NL>>)

\* s.replace(old, new, 1)
ReplaceFirst(s, old, new) ==
    LET At(k) ==
            IF k = 0 THEN s
            ELSE Slice(s, 1, k - 1) \o new \o Slice(s, k + Len(old), Len(s))
    IN  At(Find(s, old, 1))

\* the characters urlsplit removes from a URL before it parses it
UnsafeUrlChars == {"\t", "\r", NL}

\* urlparse(url).netloc for a URL that starts with http:// or https://, the
\* text between the "//" and the first of "/", "?" and "#"; <<"ValueError">>
\* stands for the exception urlsplit raises on a bracket in the netloc that
\* is not the bracket pair of an IP literal
Netloc(url) ==
    LET Checked(netloc) ==
            IF \E k \in 1..Len(netloc) : netloc[k] \in {"[", "]"}
            THEN <<"ValueError">> ELSE netloc
        Host(u, from) == Checked(Slice(u, from, from + RunLenNot(u, from, {"/", "?", "#"}) - 1))
        Parsed(u) == Host(u, Find(u, <<"/", "/">>, 1) + 2)
    IN  Parsed(Without(url, UnsafeUrlChars))

\* normalize_url of _normalize_url_case on the URL of a match
normalize_url(url) ==
    LET Lowered(netloc) ==
            IF netloc = <<>> \/ netloc = <<"ValueError">> THEN url
            ELSE ReplaceFirst(url, netloc, Lower(netloc))
    IN  Lowered(Netloc(url))

\* r'\]\((https?://[^)]+)\)' at position i, replaced by normalize_url
UrlMatch(s, i) ==
    LET Body(e, n) ==
            IF n >= 1 /\ HasAt(s, e + n, <<")">>)
            THEN SubTo(e + n + 1,
                       <<"]", "(">> \o normalize_url(Slice(s, i + 2, e + n - 1)) \o <<")">>)
            ELSE NoSub
        Scheme(e) == Body(e, RunLenNot(s, e, {")"}))
    IN  IF HasAt(s, i, <<"]", "(", "h", "t", "t", "p", "s", ":", "/", "/">>) THEN Scheme(i + 10)
        ELSE IF HasAt(s, i, <<"]", "(", "h", "t", "t", "p", ":", "/", "/">>) THEN Scheme(i + 9)
        ELSE NoSub

normalize_url_case(md) == Sub([i \in 1..Len(md) |-> UrlMatch(md, i)], md, 1)

\* r'\[\s+([^\]]+?)\s+\]' at position i, replaced by r'[\1]': the text
\* between "[" and the first "]" after it starts and ends with whitespace;
\* group 1 is what lies between the two runs, or, when there is nothing but
\* whitespace (three characters at least), the last character but one
SpacedLinkMatch(s, i) ==
    LET Group(c, lead, trail) ==
            IF lead = c - i - 1
            THEN (IF lead >= 3 THEN SubTo(c + 1, <<"[", s[c - 2], "]">>) ELSE NoSub)
            ELSE IF lead >= 1 /\ trail >= 1
            THEN SubTo(c + 1, <<"[">> \o Slice(s, i + 1 + lead, c - 1 - trail) \o <<"]">>)
            ELSE NoSub
        Inner(c) ==
            Group(c, RunLen(s, i + 1, WS), c - 1 - i - Len(RStrip(Slice(s, i + 1, c - 1))))
        Closed(n) == IF HasAt(s, i + 1 + n, <<"]">>) THEN Inner(i + 1 + n) ELSE NoSub
    IN  IF HasAt(s, i, <<"[">>) THEN Closed(RunLenNot(s, i + 1, {"]"})) ELSE NoSub

\* r'\[\[([^\]]+)\]\](\([^)]+\))' at position i, replaced by r'[\1]\2'
DoubleBracketMatch(s, i) ==
    LET Url(c, m) ==
            IF m >= 1 /\ HasAt(s, c + 3 + m, <<")">>)
            THEN SubTo(c + 4 + m,
                       <<"[">> \o Slice(s, i + 2, c - 1) \o <<"]">> \o Slice(s, c + 2, c + 3 + m))
            ELSE NoSub
        Closed(c) ==
            IF HasAt(s, c, <<"]", "]", "(">>) THEN Url(c, RunLenNot(s, c + 3, {")"}))
            ELSE NoSub
        Text(n) == IF n >= 1 THEN Closed(i + 2 + n) ELSE NoSub
    IN  IF HasAt(s, i, <<"[", "[">>) THEN Text(RunLenNot(s, i + 2, {"]"})) ELSE NoSub

\* where the URL of r'\(https?://([^)]+)\)' starts after the "(" at k, 0 when
\* the pattern does not match at k
UrlBodyAt(s, k) ==
    LET Body(e) ==
            IF RunLenNot(s, e, {")"}) >= 1 /\ HasAt(s, e + RunLenNot(s, e, {")"}), <<")">>)
            THEN e ELSE 0
    IN  IF HasAt(s, k, <<"(", "h", "t", "t", "p", "s", ":", "/", "/">>) THEN Body(k + 9)
        ELSE IF HasAt(s, k, <<"(", "h", "t", "t", "p", ":", "/", "/">>) THEN Body(k + 8)
        ELSE 0

\* r'\[([^\]]+)\(https?://([^)]+)\)' at position i, replaced by
\* r'[\1](https://\2)': group 1 is greedy, so the URL is the last one that
\* starts within the run of characters other than "]"
MissingBracketMatch(s, i) ==
    LET Url(k, e) ==
            SubTo(e + RunLenNot(s, e, {")"}) + 1,
                  <<"[">> \o Slice(s, i + 1, k - 1)
                      \o <<"]", "(", "h", "t", "t", "p", "s", ":", "/", "/">>
                      \o Slice(s, e, e + RunLenNot(s, e, {")"}) - 1) \o <<")">>)
        Last(k) == Url(k, UrlBodyAt(s, k))
        Starts(ks) == IF ks = {} THEN NoSub ELSE Last(Max(ks))
        Text(n) == Starts({k \in (i + 2)..(i + 1 + n) : UrlBodyAt(s, k) # 0})
    IN  IF HasAt(s, i, <<"[">>) THEN Text(RunLenNot(s, i + 1, {"]"})) ELSE NoSub

fix_markdown_links(md) ==
    LET Missing(t) == Sub([i \in 1..Len(t) |-> MissingBracketMatch(t, i)], t, 1)
        Double(t) == Missing(Sub([i \in 1..Len(t) |-> DoubleBracketMatch(t, i)], t, 1))
    IN  Double(Sub([i \in 1..Len(md) |-> SpacedLinkMatch(md, i)], md, 1))

fix_links(md, cfg) ==
    LET Cased(t) == fix_markdown_links(IF cfg.normalize_url_case THEN normalize_url_case(t) ELSE t)
    IN  Cased(IF cfg.fix_broken_urls THEN fix_broken_urls(md) ELSE md)

(***************************************************************************)
(* code_block_fixer.py                                                     *)
(***************************************************************************)
\* CodeBlockFixerConfig(): the defaults of the dataclass
CodeBlockFixerConfig ==
    [wrap_inline_code |-> TRUE,
     wrap_code_blocks |-> TRUE,
     code_indicators  |->
        { <<"f", "u", "n", "c", "t", "i", "o", "n">>, <<"d", "e", "f", " ">>,
          <<"c", "l", "a", "s", "s", " ">>,
          <<"i", "m", "p", "o", "r", "t", " ">>, <<"f", "r", "o", "m", " ">>,
          <<"v", "a", "r", " ">>, <<"l", "e", "t", " ">>,
          <<"c", "o", "n", "s", "t", " ">>,
          <<"p", "u", "b", "l", "i", "c", " ">>,
          <<"p", "r", "i", "v", "a", "t", "e", " ">>,
          <<"r", "e", "t", "u", "r", "n", " ">>, <<"i", "f", " ", "(">>,
          <<"f", "o", "r", " ", "(">>, <<"w", "h", "i", "l", "e", " ", "(">>,
          <<"<", "?", "p", "h", "p">>, <<"#", "!", "/">>,
          <<"s", "u", "d", "o", " ">>, <<"a", "p", "t", "-", "g", "e", "t">>,
          <<"n", "p", "m", " ">>, <<"p", "i", "p", " ">>,
          <<"r", "a", "c", "a", "d", "m", " ">>,
          <<"i", "p", "m", "i", "t", "o", "o", "l", " ">>,
          <<"c", "u", "r", "l", " ">>, <<"w", "g", "e", "t", " ">> }]

\* the characters of the class [a-zA-Z0-9\-_=]
OptionChars == Letters \cup Digits \cup {"-", "_", "="}

\* the characters of the class [a-zA-Z0-9_\-\.]
PathChars == Letters \cup Digits \cup {"_", "-", "."}

\* the characters of the class [A-Z0-9_]
EnvChars == Upper \cup Digits \cup {"_"}

\* the ASCII characters of the class \w
WordChars == Letters \cup Digits \cup {"_"}

\* (?<!\`) at position i
NotAfterBackquote(s, i) == i = 1 \/ s[i - 1] # Backquote

\* (?!\`) at position i
NotBeforeBackquote(s, i) == i > Len(s) \/ s[i] # Backquote

\* r'(?<!\`)\s(-{1,2}[a-zA-Z][a-zA-Z0-9\-_=]+)(?!\`)' at position i,
\* replaced by r' `\1`'; before a backquote the last run gives one character back
OptionMatch(s, i) ==
    LET Wrapped(e) ==
            SubTo(e + 1, <<" ", Backquote>> \o Slice(s, i + 1, e) \o <<Backquote>>)
        Run(q, n) ==
            IF n >= 1 /\ NotBeforeBackquote(s, q + n) THEN Wrapped(q + n - 1)
            ELSE IF n >= 2 THEN Wrapped(q + n - 2)
            ELSE NoSub
        Letter(q) ==
            IF q <= Len(s) /\ s[q] \in Letters THEN Run(q + 1, RunLen(s, q + 1, OptionChars))
            ELSE NoSub
        Dashes(q) ==
            IF HasAt(s, q, <<"-", "-">>) THEN Letter(q + 2)
            ELSE IF HasAt(s, q, <<"-">>) THEN Letter(q + 1)
            ELSE NoSub
    IN  IF i <= Len(s) /\ s[i] \in WS /\ NotAfterBackquote(s, i) THEN Dashes(i + 1)
        ELSE NoSub

\* the end of the longest run of segments /[a-zA-Z0-9_\-\.]+ that starts at
\* position i, i - 1 when there is none
RECURSIVE PathEnd(_, _)
PathEnd(s, i) ==
    LET Segment(n) == IF n >= 1 THEN PathEnd(s, i + 1 + n) ELSE i - 1
    IN  IF HasAt(s, i, <<"/">>) THEN Segment(RunLen(s, i + 1, PathChars)) ELSE i - 1

\* r'(?<!\`)((?:/[a-zA-Z0-9_\-\.]+)+)(?!\`)' at position i, replaced by
\* r'`\1`'; before a backquote the path gives its last character back, or its
\* last segment when that is one character long
PathMatch(s, i) ==
    LET Wrapped(e) ==
            IF e <= i THEN NoSub
            ELSE SubTo(e + 1, <<Backquote>> \o Slice(s, i, e) \o <<Backquote>>)
        Path(e) ==
            IF e < i THEN NoSub
            ELSE IF NotBeforeBackquote(s, e + 1) THEN Wrapped(e)
            ELSE IF s[e - 1] = "/" THEN Wrapped(e - 2)
            ELSE Wrapped(e - 1)
    IN  IF NotAfterBackquote(s, i) THEN Path(PathEnd(s, i)) ELSE NoSub

\* r'(?<!\`)(\$\{?[A-Z_][A-Z0-9_]*\}?)(?!\`)' at position i, replaced by
\* r'`\1`'; before a backquote the name gives its last character back
EnvMatch(s, i) ==
    LET Wrapped(e) == SubTo(e + 1, <<Backquote>> \o Slice(s, i, e) \o <<Backquote>>)
        Name(q, n) ==
            IF HasAt(s, q + n + 1, <<"}">>)
            THEN (IF NotBeforeBackquote(s, q + n + 2) THEN Wrapped(q + n + 1)
                  ELSE Wrapped(q + n))
            ELSE IF NotBeforeBackquote(s, q + n + 1) THEN Wrapped(q + n)
            ELSE IF n >= 1 THEN Wrapped(q + n - 1)
            ELSE NoSub
        First(q) ==
            IF q <= Len(s) /\ s[q] \in Upper \cup {"_"}
            THEN Name(q, RunLen(s, q + 1, EnvChars))
            ELSE NoSub
        Brace(q) == IF HasAt(s, q, <<"{">>) THEN First(q + 1) ELSE First(q)
    IN  IF HasAt(s, i, <<"$">>) /\ NotAfterBackquote(s, i) THEN Brace(i + 1) ELSE NoSub

fix_inline_code(md) ==
    LET Envs(t) == Sub([i \in 1..Len(t) |-> EnvMatch(t, i)], t, 1)
        Paths(t) == Envs(Sub([i \in 1..Len(t) |-> PathMatch(t, i)], t, 1))
    IN  Paths(Sub([i \in 1..Len(md) |-> OptionMatch(md, i)], md, 1))

\* s.startswith(p) for one of the characters of Set
StartsWithOneOf(s, Set) == s # <<>> /\ s[1] \in Set

\* re.match(r'^[\$#>]\s+\w+', stripped)
IsPromptLine(stripped) ==
    LET Command(w) == w >= 1 /\ 2 + w <= Len(stripped) /\ stripped[2 + w] \in WordChars
    IN  /\ StartsWithOneOf(stripped, {"$", "#", ">"})
        /\ Command(RunLen(stripped, 2, WS))

\* re.search(r'\w+\s*=\s*["\'\d\[]', stripped)
HasAssignment(stripped) ==
    LET Before(k) == Len(RStrip(Slice(stripped, 1, k - 1)))
        Value(v) == v <= Len(stripped) /\ stripped[v] \in Digits \cup {"\"", "'", "["}
    IN  \E k \in 1..Len(stripped) :
            /\ stripped[k] = "="
            /\ Before(k) >= 1
            /\ stripped[Before(k)] \in WordChars
            /\ Value(k + 1 + RunLen(stripped, k + 1, WS))

looks_like_code(line, cfg) ==
    LET Code(stripped) ==
            /\ stripped # <<>>
            /\ ~StartsWithOneOf(stripped, {"#", "|", "-", ">", "*", "+"})
            /\ \/ \E indicator \in cfg.code_indicators :
                      Contains(Lower(stripped), indicator)
               \/ IsPromptLine(stripped)
               \/ HasAssignment(stripped)
    IN  Code(Strip(line))

\* the texts _detect_language looks for
Bash == <<"b", "a", "s", "h">>

detect_language(line) ==
    LET Has(stripped, words) == \E w \in words : Contains(stripped, w)
        Lang(stripped) ==
            IF StartsWithOneOf(stripped, {"$", "#"}) /\ RunLen(stripped, 2, WS) >= 1
            THEN Bash
            ELSE IF Has(stripped, {<<"r", "a", "c", "a", "d", "m">>, <<"i", "p", "m", "i", "t", "o", "o", "l">>})
            THEN Bash
            ELSE IF Has(stripped, {<<"a", "p", "t", "-", "g", "e", "t">>, <<"y", "u", "m">>, <<"d", "n", "f">>, <<"p", "i", "p">>})
            THEN Bash
            ELSE IF Has(stripped, {<<"d", "e", "f", " ">>, <<"i", "m", "p", "o", "r", "t", " ">>})
            THEN <<"p", "y", "t", "h", "o", "n">>
            ELSE IF \/ HasAt(stripped, 1, <<"p", "s", ">">>)
                    \/ Has(stripped, {<<"g", "e", "t", "-">>})
            THEN <<"p", "o", "w", "e", "r", "s", "h", "e", "l", "l">>
            ELSE IF Has(stripped, {<<"c", "o", "n", "s", "t", " ">>, <<"l", "e", "t", " ">>, <<"v", "a", "r", " ">>, <<"f", "u", "n", "c", "t", "i", "o", "n">>})
            THEN <<"j", "a", "v", "a", "s", "c", "r", "i", "p", "t">>
            ELSE <<>>
    IN  Lang(Lower(Strip(line)))

\* the lines a flushed code_buffer adds to result_lines
FlushBuffer(code_buffer, detected_lang) ==
    IF Len(code_buffer) >= 2
    THEN <<Fence \o detected_lang>> \o code_buffer \o <<Fence>>
    ELSE code_buffer

\* the for loop of _detect_and_wrap_code_blocks from line i on, and the flush
\* after it
RECURSIVE WrapLoop(_, _, _, _, _, _)
WrapLoop(lines, i, in_code_block, code_buffer, detected_lang, cfg) ==
    IF i > Len(lines) THEN FlushBuffer(code_buffer, detected_lang)
    ELSE IF HasAt(Strip(lines[i]), 1, Fence)
    THEN <<lines[i]>>
             \o WrapLoop(lines, i + 1, ~in_code_block, code_buffer, detected_lang, cfg)
    ELSE IF in_code_block
    THEN <<lines[i]>>
             \o WrapLoop(lines, i + 1, in_code_block, code_buffer, detected_lang, cfg)
    ELSE IF looks_like_code(lines[i], cfg)
    THEN WrapLoop(lines, i + 1, in_code_block, Append(code_buffer, lines[i]),
                  IF code_buffer = <<>> THEN detect_language(lines[i])
                  ELSE detected_lang, cfg)
    ELSE FlushBuffer(code_buffer, detected_lang) \o <<lines[i]>>
             \o WrapLoop(lines, i + 1, in_code_block, <<>>, <<>>, cfg)

detect_and_wrap_code_blocks(md, cfg) ==
    Join(WrapLoop(SplitLines(md), 1, FALSE, <<>>, <<>>, cfg), <<NL>>)

fix_code_blocks(md, cfg) ==
    LET Wrapped(t) == IF cfg.wrap_code_blocks THEN detect_and_wrap_code_blocks(t, cfg) ELSE t
    IN  Wrapped(IF cfg.wrap_inline_code THEN fix_inline_code(md) ELSE md)

(***************************************************************************)
(* toc_processor.py and create_heading_hierarchy of heading_fixer.py: the *)
(* objects are numbered by the position of their item in the flat list.    *)
(***************************************************************************)

\* TOCNode(item=item)
TOCNode(item) == [item |-> item, parent |-> 0, children |-> <<>>]

\* the stack after popping every node whose level is > level
RECURSIVE PopNodesDeeper(_, _, _)
PopNodesDeeper(stack, levels, level) ==
    IF stack # <<>> /\ levels[stack[Len(stack)] + 1] > level
    THEN PopNodesDeeper(SubSeq(stack, 1, Len(stack) - 1), levels, level)
    ELSE stack

\* while stack and stack[-1] level >= item.level: stack.pop(), where levels
\* gives the level of object number k at position k + 1 (number 0 is the
\* root dict of create_heading_hierarchy)
RECURSIVE PopNodes(_, _, _)
PopNodes(stack, levels, level) ==
    IF stack # <<>> /\ levels[stack[Len(stack)] + 1] >= level
    THEN PopNodes(SubSeq(stack, 1, Len(stack) - 1), levels, level)
    ELSE stack

\* the levels of the root dict and of the items
LevelsOf(items) == <<0>> \o [k \in 1..Len(items) |-> items[k].level]

\* the for loop of _build_tree from item k on
RECURSIVE BuildLoop(_, _, _, _)
BuildLoop(items, k, t, stack) ==
    IF k > Len(items) THEN t
    ELSE LET popped == PopNodes(stack, LevelsOf(items), items[k].level)
             top    == popped[Len(popped)]
             nodes  == Append(t.nodes, TOCNode(items[k]))
         IN  IF popped # <<>>
             THEN BuildLoop(items, k + 1,
                      [root_nodes |-> t.root_nodes,
                       nodes |-> [nodes EXCEPT ![k].parent = top,
                                               ![top].children = Append(@, k)]],
                      Append(popped, k))
             ELSE BuildLoop(items, k + 1,
                      [root_nodes |-> Append(t.root_nodes, k), nodes |-> nodes],
                      Append(popped, k))

\* TOCProcessor(toc_items): root_nodes and the nodes after _build_tree
build_tree(items) == BuildLoop(items, 1, [root_nodes |-> <<>>, nodes |-> <<>>], <<>>)

\* the for loop of create_heading_hierarchy from item k on
RECURSIVE HierarchyLoop(_, _, _, _)
HierarchyLoop(items, k, h, stack) ==
    IF k > Len(items) THEN h
    ELSE LET popped == PopNodes(stack, LevelsOf(items), items[k].level)
             top    == popped[Len(popped)]
             nodes  == Append(h.nodes, [title    |-> items[k].title,
                                        level    |-> items[k].level,
                                        page     |-> items[k].page_number,
                                        children |-> <<>>])
         IN  IF popped = <<>>
             THEN HierarchyLoop(items, k + 1, [h EXCEPT !.nodes = nodes], <<k>>)
             ELSE IF top = 0
             THEN HierarchyLoop(items, k + 1,
                      [root  |-> [h.root EXCEPT !.children = Append(@, k)],
                       nodes |-> nodes],
                      Append(popped, k))
             ELSE HierarchyLoop(items, k + 1,
                      [root  |-> h.root,
                       nodes |-> [nodes EXCEPT ![top].children = Append(@, k)]],
                      Append(popped, k))

\* create_heading_hierarchy(toc): the root dict and the dicts of the items
create_heading_hierarchy(items) ==
    HierarchyLoop(items, 1,
        [root  |-> [title |-> <<"r", "o", "o", "t">>, level |-> 0, children |-> <<>>],
         nodes |-> <<>>],
        <<0>>)

(***************************************************************************)
(* Inputs of the segmenter runs: every text made of at most MaxSegTokens   *)
(* tokens, and a few configurations with small size limits.                *)
(***************************************************************************)
MaxSegTokens == 5

SegTokens ==
    { <<"#", " ">>,
      <<"#", "#", " ">>,
      <<"a">>,
      <<NL>>,
      <<"|", "a", "|", NL, "|", "-", "|", NL>>,
      Fence }

\* every concatenation of at most n elements of T
RECURSIVE Concats(_, _)
Concats(T, n) ==
    IF n = 0 THEN {<<>>}
    ELSE LET P == Concats(T, n - 1)
         IN  P \cup {p \o t : p \in P, t \in T}

\* SegmenterConfig(...)
SegmenterConfig(target, max, min, tables, code) ==
    [target_chunk_size    |-> target,
     max_chunk_size       |-> max,
     min_chunk_size       |-> min,
     preserve_tables      |-> tables,
     preserve_code_blocks |-> code]

SegConfigs ==
    { SegmenterConfig(2, 4, 1, TRUE, TRUE),
      SegmenterConfig(4, 8, 1, TRUE, TRUE),
      SegmenterConfig(4, 8, 1, FALSE, FALSE) }

InitSeg ==
    /\ markdown \in Concats(SegTokens, MaxSegTokens)
    /\ config \in SegConfigs
    /\ toc = <<>>
    /\ kwargs = <<>>
    /\ toc_map = <<>>
    /\ chunks = <<>>
    /\ result = <<>>
    /\ result2 = <<>>
    /\ pc = "start"
    /\ log = <<>>
    /\ frame = NoFrame
    /\ tree = NoTree
    /\ hierarchy = NoTree
    /\ pending = <<>>

\* StructureAwareSegmenter(config=config).segment(markdown)
Segment ==
    /\ pc = "start"
    /\ chunks' = segment(markdown, config)
    /\ pc' = "segmented"
    /\ UNCHANGED <<markdown, toc, kwargs, config, toc_map, result, result2, log, frame, tree,
                   hierarchy, pending>>

\* MetadataEnricher().enrich_chunks(chunks)
Enrich ==
    /\ pc = "segmented"
    /\ chunks' = enrich_chunks(chunks)
    /\ pc' = "enriched"
    /\ UNCHANGED <<markdown, toc, kwargs, config, toc_map, result, result2, log, frame, tree,
                   hierarchy, pending>>

NextSeg == Segment \/ Enrich

SpecSeg == InitSeg /\ [][NextSeg]_vars

(***************************************************************************)
(* Runs of the heading fixer: the caller builds HeadingFixerConfig from    *)
(* keyword arguments, builds HeadingFixer(toc, config), and then either    *)
(* looks one heading text up or fixes a document and fixes the result      *)
(* again.                                                                  *)
(***************************************************************************)

\* the fields of the dataclass HeadingFixerConfig and their defaults
HFFields == {"min_match_ratio", "remove_bold_from_headings", "add_missing_headings"}

Arg(kw, name, default) ==
    IF \E k \in 1..Len(kw) : kw[k][1] = name
    THEN kw[CHOOSE k \in 1..Len(kw) : kw[k][1] = name][2]
    ELSE default

\* HeadingFixerConfig(**kw): a keyword that names no field raises TypeError
KwargsAccepted(kw) == \A k \in 1..Len(kw) : kw[k][1] \in HFFields

HeadingFixerConfig(kw) ==
    [min_match_ratio           |-> Arg(kw, "min_match_ratio", [num |-> 8, den |-> 10]),
     remove_bold_from_headings |-> Arg(kw, "remove_bold_from_headings", TRUE),
     add_missing_headings      |-> Arg(kw, "add_missing_headings", FALSE)]

TOCItem(level, title) == [level |-> level, title |-> title, page_number |-> 1]

MaxHFLines == 3

HFLines ==
    { <<>>,
      <<"#", " ", "1">>,
      <<"*", "*", "1", "*", "*">>,
      <<"#", "#", " ", "A", "b", "c", "d">>,
      <<"*", "*", "A", "b", "c", "d", "*", "*">>,
      <<"#", " ", "*", "*", "A", "b", "c", "d", "*", "*">>,
      <<"A", "b", "c", "d">> }

\* every text of 1..n lines of the set Lines, joined by newlines
RECURSIVE LinesUpTo(_, _)
LinesUpTo(Lines, n) ==
    IF n <= 1 THEN Lines
    ELSE LET P == LinesUpTo(Lines, n - 1)
         IN  P \cup {p \o <<NL>> \o l : p \in P, l \in Lines}

\* the outlines the documents are fixed against
HFTocs ==
    { <<>>,
      <<TOCItem(1, <<"A", "b", "c", "d">>)>>,
      <<TOCItem(2, <<"A", "b", "c", "d">>), TOCItem(1, <<"1">>)>>,
      <<TOCItem(1, <<"A", "b", "c", "d">>), TOCItem(3, <<"A", "B", "C", "D">>)>>,
      <<TOCItem(3, <<"x", " ", "A", "b", "c", "d">>), TOCItem(1, <<"A", "b", "c", "d">>)>> }

\* the outlines heading texts are looked up in: those and one with two titles
\* equally close to a heading text
LookupTocs ==
    HFTocs \cup
    { <<TOCItem(2, <<"y", " ", "A", "b", "c", "d">>),
        TOCItem(3, <<"x", " ", "A", "b", "c", "z">>)>> }

HFKwargs ==
    { <<>>,
      << <<"min_match_ratio", [num |-> 5, den |-> 10]>> >>,
      << <<"remove_bold_from_headings", FALSE>> >>,
      << <<"bold_non_toc_headings", TRUE>> >> }

LookupKwargs == HFKwargs \cup { << <<"min_match_ratio", [num |-> 0, den |-> 10]>> >> }

\* the heading texts looked up by LookupLevel
HFTexts ==
    { <<"A", "b", "c", "d">>, <<"A", "B", "C", "D">>, <<"x", " ", "A", "b", "c", "d">>, <<"1">>, <<"z">>,
      <<"*", "*", "A", "b", "c", "d", "*", "*">> }

InitHF(docs, tocs, kws) ==
    /\ markdown \in docs
    /\ toc \in tocs
    /\ kwargs \in kws
    /\ config = <<>>
    /\ toc_map = <<>>
    /\ chunks = <<>>
    /\ result = <<>>
    /\ result2 = <<>>
    /\ pc = "start"
    /\ log = <<>>
    /\ frame = NoFrame
    /\ tree = NoTree
    /\ hierarchy = NoTree
    /\ pending = <<>>

\* config = HeadingFixerConfig(**kwargs); fixer = HeadingFixer(toc, config)
Construct ==
    /\ pc = "start"
    /\ IF KwargsAccepted(kwargs)
       THEN /\ config' = HeadingFixerConfig(kwargs)
            /\ toc_map' = build_toc_map(toc, <<>>)
            /\ pc' = "ready"
       ELSE /\ pc' = "TypeError"
            /\ UNCHANGED <<config, toc_map>>
    /\ UNCHANGED <<markdown, toc, kwargs, chunks, result, result2, log, frame, tree, hierarchy,
                   pending>>

\* fixer.fix_headings(markdown)
FixHeadings ==
    /\ pc = "ready"
    /\ result' = fix_headings(markdown, toc_map, config)
    /\ pc' = "fixed"
    /\ UNCHANGED <<markdown, toc, kwargs, config, toc_map, chunks, result2, log, frame, tree,
                   hierarchy, pending>>

\* fixer.fix_headings(result): the fixer run on its own output
FixHeadingsAgain ==
    /\ pc = "fixed"
    /\ result2' = fix_headings(result, toc_map, config)
    /\ pc' = "refixed"
    /\ UNCHANGED <<markdown, toc, kwargs, config, toc_map, chunks, result, log, frame, tree,
                   hierarchy, pending>>

NextHF == Construct \/ FixHeadings \/ FixHeadingsAgain

SpecHF == InitHF(LinesUpTo(HFLines, MaxHFLines), HFTocs, HFKwargs) /\ [][NextHF]_vars

\* fixer._find_toc_level(text): markdown holds the text looked up, result
\* the level found (None or Some(level))
LookupLevel ==
    /\ pc = "ready"
    /\ result' = find_toc_level(markdown, toc_map, config)
    /\ pc' = "looked"
    /\ UNCHANGED <<markdown, toc, kwargs, config, toc_map, chunks, result2, log, frame, tree,
                   hierarchy, pending>>

NextLookup == Construct \/ LookupLevel

SpecLookup == InitHF(HFTexts, LookupTocs, LookupKwargs) /\ [][NextLookup]_vars

(***************************************************************************)
(* Runs of the cleanup: MarkdownCleanup() with the default CleanupConfig    *)
(* cleans a document and then cleans its own output.                       *)
(***************************************************************************)
MaxCleanTokens == 4

CleanTokens ==
    { <<"*", "*">>, <<"*", "*", "*", "*">>, <<"1">>, <<"a">>, <<"-", " ">>,
      <<" ">>, <<NL>>, <<"U2022">> }

InitClean ==
    /\ markdown \in Concats(CleanTokens, MaxCleanTokens)
    /\ config = CleanupConfig
    /\ toc = <<>>
    /\ kwargs = <<>>
    /\ toc_map = <<>>
    /\ chunks = <<>>
    /\ result = <<>>
    /\ result2 = <<>>
    /\ pc = "start"
    /\ log = <<>>
    /\ frame = NoFrame
    /\ tree = NoTree
    /\ hierarchy = NoTree
    /\ pending = <<>>

\* MarkdownCleanup(config).clean(markdown)
Clean ==
    /\ pc = "start"
    /\ result' = clean(markdown, config)
    /\ pc' = "cleaned"
    /\ UNCHANGED <<markdown, toc, kwargs, config, toc_map, chunks, result2, log, frame, tree,
                   hierarchy, pending>>

\* MarkdownCleanup(config).clean(result): the cleanup run on its own output
CleanAgain ==
    /\ pc = "cleaned"
    /\ result2' = clean(result, config)
    /\ pc' = "recleaned"
    /\ UNCHANGED <<markdown, toc, kwargs, config, toc_map, chunks, result, log, frame, tree,
                   hierarchy, pending>>

NextClean == Clean \/ CleanAgain

SpecClean == InitClean /\ [][NextClean]_vars

(***************************************************************************)
(* Runs of the redundant-TOC step: clean, with remove_redundant_toc set,   *)
(* hands the text to _remove_redundant_toc.                                *)
(***************************************************************************)
MaxTocTokens == 5

TocTokens ==
    { <<".", ".", ".", ".", ".">>, <<".">>, <<"1">>, <<"a">>, <<"*", "*">>, <<NL>> }

InitToc ==
    /\ markdown \in Concats(TocTokens, MaxTocTokens)
    /\ config = CleanupConfig
    /\ toc = <<>>
    /\ kwargs = <<>>
    /\ toc_map = <<>>
    /\ chunks = <<>>
    /\ result = <<>>
    /\ result2 = <<>>
    /\ pc = "start"
    /\ log = <<>>
    /\ frame = NoFrame
    /\ tree = NoTree
    /\ hierarchy = NoTree
    /\ pending = <<>>

\* if self.config.remove_redundant_toc: result = self._remove_redundant_toc(result)
RemoveToc ==
    /\ pc = "start"
    /\ config.remove_redundant_toc
    /\ result' = remove_redundant_toc(markdown)
    /\ pc' = "toc"
    /\ UNCHANGED <<markdown, toc, kwargs, config, toc_map, chunks, result2, log, frame, tree,
                   hierarchy, pending>>

NextToc == RemoveToc

SpecToc == InitToc /\ [][NextToc]_vars

(***************************************************************************)
(* Runs of the footer step: clean, with remove_page_footers set, hands the *)
(* text to _remove_page_footers. The documents are made of lines of two    *)
(* bold spans, a page number and a text on either side of the length       *)
(* limit, and of plain lines.                                              *)
(***************************************************************************)
MaxFooterLines == 2

Repeat(c, n) == [k \in 1..n |-> c]

Bold(x) == Stars2 \o x \o Stars2

\* the texts of the bold spans: one character below the limit, at the limit,
\* at the limit with a known section name, a known section name, and digits
\* only at the limit
FooterTexts ==
    { Repeat("x", FooterTextLimit - 1),
      Repeat("x", FooterTextLimit),
      Repeat("x", FooterTextLimit) \o <<" ", "R", "e", "v", ".">>,
      <<"C", "o", "n", "t", "e", "n", "t", "s">>,
      Repeat("7", FooterTextLimit) }

FooterNumbers == { <<"4", "5">> }

TextFirst(text, num) == Bold(text) \o <<" ">> \o Bold(num)

NumberFirst(text, num) == Bold(num) \o <<" ">> \o Bold(text)

FooterLines ==
    {TextFirst(x, n) : x \in FooterTexts, n \in FooterNumbers}
        \cup {NumberFirst(x, n) : x \in FooterTexts, n \in FooterNumbers}
        \cup { <<"a">>, <<>> }

InitFooter ==
    /\ markdown \in LinesUpTo(FooterLines, MaxFooterLines)
    /\ config = CleanupConfig
    /\ toc = <<>>
    /\ kwargs = <<>>
    /\ toc_map = <<>>
    /\ chunks = <<>>
    /\ result = <<>>
    /\ result2 = <<>>
    /\ pc = "start"
    /\ log = <<>>
    /\ frame = NoFrame
    /\ tree = NoTree
    /\ hierarchy = NoTree
    /\ pending = <<>>

\* if self.config.remove_page_footers: result = self._remove_page_footers(result)
RemoveFooters ==
    /\ pc = "start"
    /\ config.remove_page_footers
    /\ result' = remove_page_footers(markdown)
    /\ pc' = "footers"
    /\ UNCHANGED <<markdown, toc, kwargs, config, toc_map, chunks, result2, log, frame, tree,
                   hierarchy, pending>>

NextFooter == RemoveFooters

SpecFooter == InitFooter /\ [][NextFooter]_vars

(***************************************************************************)
(* Runs of the table merger: documents of one to MaxTables tables, each    *)
(* two columns wide, with text or page artifacts between and after them.   *)
(***************************************************************************)
MaxTables == 2

MergeHeaders == { <<"|", "a", "|", "b", "|", NL>>, <<"|", "a", "|", "c", "|", NL>> }

MergeSeparator == <<"|", "-", "|", "-", "|", NL>>

MergeRows ==
    { <<>>,
      <<"|", "1", "|", "2", "|", NL>>,
      <<"|", "1", "|", "2", "|", NL, "|", "3", "|", "4", "|", NL>> }

MergeTablesIn == {h \o MergeSeparator \o r : h \in MergeHeaders, r \in MergeRows}

\* between two tables: a blank line, a bold page number, a line of prose
MergeGaps ==
    { <<NL>>, <<NL, "*", "*", "7", "*", "*", NL, NL>>, <<"x", NL>> }

\* after the last table: nothing, a blank line, text
MergePosts == { <<>>, <<NL>>, <<"x">> }

\* the documents of exactly n tables, before the text after the last one
RECURSIVE MergeBodies(_)
MergeBodies(n) ==
    IF n = 1 THEN MergeTablesIn
    ELSE {b \o g \o tb : b \in MergeBodies(n - 1), g \in MergeGaps, tb \in MergeTablesIn}

MergeDocs ==
    UNION {{b \o p : b \in MergeBodies(n), p \in MergePosts} : n \in 1..MaxTables}

InitMerge ==
    /\ markdown \in MergeDocs
    /\ config = TableMergerConfig
    /\ toc = <<>>
    /\ kwargs = <<>>
    /\ toc_map = <<>>
    /\ chunks = <<>>
    /\ result = <<>>
    /\ result2 = <<>>
    /\ pc = "start"
    /\ log = <<>>
    /\ frame = NoFrame
    /\ tree = NoTree
    /\ hierarchy = NoTree
    /\ pending = <<>>

\* TableMerger(config).merge_tables(markdown)
MergeTables ==
    /\ pc = "start"
    /\ result' = merge_tables(markdown, config)
    /\ pc' = "merged"
    /\ UNCHANGED <<markdown, toc, kwargs, config, toc_map, chunks, result2, log, frame, tree,
                   hierarchy, pending>>

NextMerge == MergeTables

SpecMerge == InitMerge /\ [][NextMerge]_vars

(***************************************************************************)
(* Runs from the construction of a segmenter configuration: the caller     *)
(* passes three sizes in any order of magnitude, SegmenterConfig and        *)
(* StructureAwareSegmenter.__init__ store them, and segment runs with them. *)
(***************************************************************************)
MaxConfigTokens == 2

ConfigSizes == {1, 2, 4}

\* the keyword arguments of SegmenterConfig(...)
SegConfigArgs ==
    [target_chunk_size : ConfigSizes, max_chunk_size : ConfigSizes,
     min_chunk_size : ConfigSizes]

InitConfig ==
    /\ markdown \in Concats(SegTokens, MaxConfigTokens)
    /\ kwargs \in SegConfigArgs
    /\ config = <<>>
    /\ toc = <<>>
    /\ toc_map = <<>>
    /\ chunks = <<>>
    /\ result = <<>>
    /\ result2 = <<>>
    /\ pc = "new"
    /\ log = <<>>
    /\ frame = NoFrame
    /\ tree = NoTree
    /\ hierarchy = NoTree
    /\ pending = <<>>

\* StructureAwareSegmenter(config=SegmenterConfig(**kwargs)): the dataclass
\* stores the fields it is given and __init__ stores the configuration
ConstructSegmenter ==
    /\ pc = "new"
    /\ config' = SegmenterConfig(kwargs.target_chunk_size, kwargs.max_chunk_size,
                                 kwargs.min_chunk_size, TRUE, TRUE)
    /\ pc' = "start"
    /\ UNCHANGED <<markdown, toc, kwargs, toc_map, chunks, result, result2, log, frame, tree,
                   hierarchy, pending>>

NextConfig == ConstructSegmenter \/ Segment

SpecConfig == InitConfig /\ [][NextConfig]_vars

(***************************************************************************)
(* Runs of ConversionPipeline.convert from the point where the converter   *)
(* has returned: result holds result.markdown, toc holds result.toc and    *)
(* chunks holds result.chunks.  The converter found no tables, so stage 3  *)
(* is skipped (process_tables returns the markdown it is given), and stage *)
(* 2 builds a TOCProcessor that nothing reads.  pc names the stage whose   *)
(* if statement is next.                                                   *)
(***************************************************************************)
MaxPipeTokens == 2

\* the post-processing stages, each named by the flag that enables it, in
\* the order the spec's control flow gives them
StageOrderOfSpec ==
    <<"run_cleanup", "fix_headings", "merge_tables", "fix_links", "fix_code_blocks",
      "segment_content", "enrich_metadata">>

\* segmentation and enrichment before the stages that rewrite the markdown
StageOrderSegmentFirst ==
    <<"segment_content", "enrich_metadata", "merge_tables", "fix_headings", "fix_links",
      "fix_code_blocks", "run_cleanup">>

\* the if statements of convert after stage 3, each named by its flag, in
\* the order of the code
StageOrder ==
    <<"merge_tables", "fix_headings", "fix_links", "fix_code_blocks", "run_cleanup",
      "segment_content", "enrich_metadata">>

\* where control is after the if statement of a stage
NextStage(stage) ==
    LET After(k) == IF k = Len(StageOrder) THEN "done" ELSE StageOrder[k + 1]
    IN  After(CHOOSE k \in 1..Len(StageOrder) : StageOrder[k] = stage)

\* PipelineConfig(...) with the flags given and a segmenter configuration
\* sized for short documents; the other configurations are the defaults
PipelineConfig(flags) ==
    [segmenter_config     |-> SegmenterConfig(4, 8, 1, TRUE, TRUE),
     cleanup_config       |-> CleanupConfig,
     heading_fixer_config |-> HeadingFixerConfig(<<>>),
     table_merger_config  |-> TableMergerConfig,
     link_fixer_config    |-> LinkFixerConfig,
     code_block_config    |-> CodeBlockFixerConfig,
     segment_content      |-> flags.segment_content,
     enrich_metadata      |-> flags.enrich_metadata,
     run_cleanup          |-> flags.run_cleanup,
     fix_headings         |-> flags.fix_headings,
     merge_tables         |-> flags.merge_tables,
     fix_links            |-> flags.fix_links,
     fix_code_blocks      |-> flags.fix_code_blocks]

PipelineFlags ==
    [segment_content : BOOLEAN, enrich_metadata : BOOLEAN, run_cleanup : BOOLEAN,
     fix_headings : BOOLEAN, merge_tables : BOOLEAN, fix_links : BOOLEAN,
     fix_code_blocks : BOOLEAN]

\* pieces of the converter's markdown: a heading that ends in "\r\n", a
\* spaced link with a command-line option, a table, a bold page number that
\* ends in "\r"
PipeTokens ==
    { <<"#", " ", "a", "\r", NL>>,
      <<"[", " ", "a", " ", "]", " ", "-", "a", "b", NL>>,
      <<"|", "a", "|", "b", "|", NL, "|", "-", "|", "-", "|", NL, "|", "1", "|", "2", "|", NL, NL>>,
      <<"*", "*", "7", "*", "*", "\r">> }

\* result.toc: no outline, or one that puts the heading on level 2
PipeTocs == { <<>>, <<TOCItem(2, <<"a">>)>> }

InitPipe ==
    /\ markdown \in Concats(PipeTokens, MaxPipeTokens)
    /\ toc \in PipeTocs
    /\ config \in {PipelineConfig(flags) : flags \in PipelineFlags}
    /\ result = markdown
    /\ kwargs = <<>>
    /\ toc_map = <<>>
    /\ chunks = <<>>
    /\ result2 = <<>>
    /\ log = <<>>
    /\ frame = NoFrame
    /\ tree = NoTree
    /\ hierarchy = NoTree
    /\ pending = <<>>
    /\ pc = StageOrder[1]

\* Stage 6: if self.config.merge_tables: ...
MergeStage ==
    /\ pc = "merge_tables"
    /\ IF config.merge_tables
       THEN /\ log' = Append(log, "merge_tables")
            /\ result' = merge_tables(result, config.table_merger_config)
       ELSE UNCHANGED <<result, log>>
    /\ pc' = NextStage("merge_tables")
    /\ UNCHANGED <<markdown, toc, kwargs, config, toc_map, chunks, result2, frame, tree, hierarchy,
                   pending>>

\* Stage 7: if self.config.fix_headings and result.toc: ...
HeadingStage ==
    /\ pc = "fix_headings"
    /\ IF config.fix_headings /\ toc # <<>>
       THEN /\ log' = Append(log, "fix_headings")
            /\ toc_map' = build_toc_map(toc, <<>>)
            /\ result' = fix_headings(result, build_toc_map(toc, <<>>),
                                      config.heading_fixer_config)
       ELSE UNCHANGED <<result, toc_map, log>>
    /\ pc' = NextStage("fix_headings")
    /\ UNCHANGED <<markdown, toc, kwargs, config, chunks, result2, frame, tree, hierarchy, pending>>

\* Stage 8: if self.config.fix_links: ...
LinkStage ==
    /\ pc = "fix_links"
    /\ IF config.fix_links
       THEN /\ log' = Append(log, "fix_links")
            /\ result' = fix_links(result, config.link_fixer_config)
       ELSE UNCHANGED <<result, log>>
    /\ pc' = NextStage("fix_links")
    /\ UNCHANGED <<markdown, toc, kwargs, config, toc_map, chunks, result2, frame, tree, hierarchy,
                   pending>>

\* Stage 9: if self.config.fix_code_blocks: ...
CodeBlockStage ==
    /\ pc = "fix_code_blocks"
    /\ IF config.fix_code_blocks
       THEN /\ log' = Append(log, "fix_code_blocks")
            /\ result' = fix_code_blocks(result, config.code_block_config)
       ELSE UNCHANGED <<result, log>>
    /\ pc' = NextStage("fix_code_blocks")
    /\ UNCHANGED <<markdown, toc, kwargs, config, toc_map, chunks, result2, frame, tree, hierarchy,
                   pending>>

\* Stage 10: if self.config.run_cleanup: ...
CleanupStage ==
    /\ pc = "run_cleanup"
    /\ IF config.run_cleanup
       THEN /\ log' = Append(log, "run_cleanup")
            /\ result' = clean(result, config.cleanup_config)
       ELSE UNCHANGED <<result, log>>
    /\ pc' = NextStage("run_cleanup")
    /\ UNCHANGED <<markdown, toc, kwargs, config, toc_map, chunks, result2, frame, tree, hierarchy,
                   pending>>

\* Stage 11: if self.config.segment_content: ...
SegmentStage ==
    /\ pc = "segment_content"
    /\ IF config.segment_content
       THEN /\ log' = Append(log, "segment_content")
            /\ chunks' = segment(result, config.segmenter_config)
       ELSE UNCHANGED <<chunks, log>>
    /\ pc' = NextStage("segment_content")
    /\ UNCHANGED <<markdown, toc, kwargs, config, toc_map, result, result2, frame, tree, hierarchy,
                   pending>>

\* Stage 12: if self.config.enrich_metadata and result.chunks: ...
EnrichStage ==
    /\ pc = "enrich_metadata"
    /\ IF config.enrich_metadata /\ chunks # <<>>
       THEN /\ log' = Append(log, "enrich_metadata")
            /\ chunks' = enrich_chunks(chunks)
       ELSE UNCHANGED <<chunks, log>>
    /\ pc' = NextStage("enrich_metadata")
    /\ UNCHANGED <<markdown, toc, kwargs, config, toc_map, result, result2, frame, tree, hierarchy,
                   pending>>

NextPipe ==
    \/ MergeStage
    \/ HeadingStage
    \/ LinkStage
    \/ CodeBlockStage
    \/ CleanupStage
    \/ SegmentStage
    \/ EnrichStage

SpecPipe == InitPipe /\ [][NextPipe]_vars

(***************************************************************************)
(* Inputs of the nested-section runs: heading lines of three levels and a  *)
(* body line, segmented as in the segmenter runs.                          *)
(***************************************************************************)

MaxPathTokens == 4

PathTokens ==
    { <<"#", " ", "a", NL>>,
      <<"#", "#", " ", "b", NL>>,
      <<"#", "#", "#", " ", "c", NL>>,
      <<"x", NL>> }

InitPath ==
    /\ markdown \in Concats(PathTokens, MaxPathTokens)
    /\ config \in SegConfigs
    /\ toc = <<>>
    /\ kwargs = <<>>
    /\ toc_map = <<>>
    /\ chunks = <<>>
    /\ result = <<>>
    /\ result2 = <<>>
    /\ pc = "start"
    /\ log = <<>>
    /\ frame = NoFrame
    /\ tree = NoTree
    /\ hierarchy = NoTree
    /\ pending = <<>>

SpecPath == InitPath /\ [][NextSeg]_vars

(***************************************************************************)
(* Inputs of the section-splitting runs: _split_large_section called, as   *)
(* _process_section calls it, on the one section of a document without     *)
(* headings that is longer than max_chunk_size; one step per iteration of  *)
(* its paragraph loop.                                                     *)
(***************************************************************************)

MaxSplitTokens == 6

SplitTokens ==
    { <<"a">>,
      <<NL, NL>>,
      <<"|", "a", "|", NL, "|", "-", "|", NL>>,
      Fence }

\* the section _split_by_headings returns for a document without headings,
\* with the flags _process_section computes
DocumentSection(content) ==
    [title      |-> DocumentTitle,
     level      |-> 0,
     path       |-> <<>>,
     preceding  |-> None,
     following  |-> None,
     has_tables |-> HasTables(content),
     has_code   |-> HasCode(content)]

InitSplit ==
    /\ markdown \in Concats(SplitTokens, MaxSplitTokens)
    /\ config \in SegConfigs
    /\ Len(markdown) > config.max_chunk_size
    /\ toc = <<>>
    /\ kwargs = <<>>
    /\ toc_map = <<>>
    /\ chunks = <<>>
    /\ result = <<>>
    /\ result2 = <<>>
    /\ pc = "split"
    /\ log = <<>>
    /\ frame = NoFrame
    /\ tree = NoTree
    /\ hierarchy = NoTree
    /\ pending = <<>>

\* the condition of the flush before a paragraph is added, with >= for >
WouldReachTarget(current_size, para, cfg) ==
    current_size + Len(para) >= cfg.target_chunk_size

\* current_size + para_size > self.config.target_chunk_size
WouldExceedTarget(current_size, para, cfg) ==
    current_size + Len(para) > cfg.target_chunk_size

\* any(p[0] == para.strip() for p in protected_elements)
IsProtected(para, elements) ==
    \E e \in 1..Len(elements) : elements[e].placeholder = Strip(para)

\* the paragraph of the current iteration
Para == frame.paragraphs[frame.para_index]

\* chunks with current_chunk flushed, if it holds anything
Flushed ==
    IF frame.current_chunk # <<>>
    THEN Append(chunks, Flush(frame.current_chunk, frame.protected_elements,
                              DocumentSection(markdown)))
    ELSE chunks

\* the protection of tables and code blocks and the split into paragraphs
ProtectElements ==
    /\ pc = "split"
    /\ LET prot == Protect(markdown, config)
       IN  frame' = [paragraphs         |-> SplitParagraphs(prot.working),
                     protected_elements |-> prot.elements,
                     current_chunk      |-> <<>>,
                     current_size       |-> 0,
                     para_index         |-> 1]
    /\ pc' = "loop"
    /\ UNCHANGED <<markdown, toc, kwargs, config, toc_map, chunks, result, result2, log, tree,
                   hierarchy, pending>>

\* an iteration on a protected paragraph: flush, then the element as a chunk
EmitProtected ==
    /\ pc = "loop"
    /\ frame.para_index <= Len(frame.paragraphs)
    /\ IsProtected(Para, frame.protected_elements)
    /\ LET hits == {e \in 1..Len(frame.protected_elements) :
                       frame.protected_elements[e].placeholder = Strip(Para)}
           type == frame.protected_elements[Min(hits)].type
       IN  chunks' = Append(Flushed,
                         MakeChunk(restore_protected(Para, frame.protected_elements),
                                   DocumentSection(markdown), type,
                                   type = "TABLE", type = "CODE_BLOCK"))
    /\ frame' = [frame EXCEPT !.current_chunk = <<>>,
                              !.current_size = 0,
                              !.para_index = @ + 1]
    /\ UNCHANGED <<markdown, toc, kwargs, config, toc_map, result, result2, pc, log, tree,
                   hierarchy, pending>>

\* an iteration that flushes current_chunk and starts a new one with para
FlushAndAdd ==
    /\ pc = "loop"
    /\ frame.para_index <= Len(frame.paragraphs)
    /\ ~IsProtected(Para, frame.protected_elements)
    /\ WouldExceedTarget(frame.current_size, Para, config)
    /\ frame.current_chunk # <<>>
    /\ chunks' = Flushed
    /\ frame' = [frame EXCEPT !.current_chunk = <<Para>>,
                              !.current_size = Len(Para),
                              !.para_index = @ + 1]
    /\ UNCHANGED <<markdown, toc, kwargs, config, toc_map, result, result2, pc, log, tree,
                   hierarchy, pending>>

\* an iteration that adds para to current_chunk
AddParagraph ==
    /\ pc = "loop"
    /\ frame.para_index <= Len(frame.paragraphs)
    /\ ~IsProtected(Para, frame.protected_elements)
    /\ ~(WouldExceedTarget(frame.current_size, Para, config) /\ frame.current_chunk # <<>>)
    /\ frame' = [frame EXCEPT !.current_chunk = Append(@, Para),
                              !.current_size = @ + Len(Para),
                              !.para_index = @ + 1]
    /\ UNCHANGED <<markdown, toc, kwargs, config, toc_map, chunks, result, result2, pc, log,
                   tree, hierarchy, pending>>

\* the flush of the remaining content after the loop, and the return
FinalFlush ==
    /\ pc = "loop"
    /\ frame.para_index > Len(frame.paragraphs)
    /\ chunks' = Flushed
    /\ pc' = "returned"
    /\ UNCHANGED <<markdown, toc, kwargs, config, toc_map, result, result2, log, frame, tree,
                   hierarchy, pending>>

NextSplit == ProtectElements \/ EmitProtected \/ FlushAndAdd \/ AddParagraph \/ FinalFlush

SpecSplit == InitSplit /\ [][NextSplit]_vars

(***************************************************************************)
(* Inputs of the content-type runs: _detect_content_type called on blocks  *)
(* made of list markers, a heading marker, text, fences and a table.       *)
(***************************************************************************)

MaxTypeTokens == 5

TypeTokens ==
    { <<"-", " ">>,
      <<"1", ".", " ">>,
      <<"#", " ">>,
      <<"a">>,
      <<NL>>,
      <<"|", "a", "|", NL, "|", "-", "|">>,
      Fence }

InitType ==
    /\ markdown \in Concats(TypeTokens, MaxTypeTokens)
    /\ config \in {SegmenterConfig(4, 8, 1, TRUE, TRUE)}
    /\ toc = <<>>
    /\ kwargs = <<>>
    /\ toc_map = <<>>
    /\ chunks = <<>>
    /\ result = <<>>
    /\ result2 = <<>>
    /\ pc = "start"
    /\ log = <<>>
    /\ frame = NoFrame
    /\ tree = NoTree
    /\ hierarchy = NoTree
    /\ pending = <<>>

\* self._detect_content_type(content): result holds the ContentType returned
DetectContentType ==
    /\ pc = "start"
    /\ result' = detect_content_type(markdown)
    /\ pc' = "detected"
    /\ UNCHANGED <<markdown, toc, kwargs, config, toc_map, chunks, result2, log, frame, tree,
                   hierarchy, pending>>

NextType == DetectContentType

SpecType == InitType /\ [][NextType]_vars

(***************************************************************************)
(* Inputs of the outline-tree runs: flat outlines of at most MaxTreeItems  *)
(* entries of levels 1 to 3.                                               *)
(***************************************************************************)

MaxTreeItems == 4

TreeItems == {TOCItem(level, <<"a">>) : level \in 1..3}

TreeTocs == UNION {[1..n -> TreeItems] : n \in 0..MaxTreeItems}

InitTree ==
    /\ toc \in TreeTocs
    /\ markdown = <<>>
    /\ config = <<>>
    /\ kwargs = <<>>
    /\ toc_map = <<>>
    /\ chunks = <<>>
    /\ result = <<>>
    /\ result2 = <<>>
    /\ pc = "start"
    /\ log = <<>>
    /\ frame = NoFrame
    /\ tree = NoTree
    /\ hierarchy = NoTree
    /\ pending = <<>>

\* TOCProcessor(toc)
BuildTree ==
    /\ pc = "start"
    /\ tree' = build_tree(toc)
    /\ pc' = "built"
    /\ UNCHANGED <<markdown, toc, kwargs, config, toc_map, chunks, result, result2, log, frame,
                   hierarchy, pending>>

\* create_heading_hierarchy(toc)
CreateHeadingHierarchy ==
    /\ pc = "built"
    /\ hierarchy' = create_heading_hierarchy(toc)
    /\ pc' = "created"
    /\ UNCHANGED <<markdown, toc, kwargs, config, toc_map, chunks, result, result2, log, frame,
                   tree, pending>>

NextTree == BuildTree \/ CreateHeadingHierarchy

SpecTree == InitTree /\ [][NextTree]_vars

(***************************************************************************)
(* The steps of merge_tables: the plan, one step per merge applied, the    *)
(* return, and a second call on the text returned.                         *)
(***************************************************************************)

\* the merge a forward loop would apply next: the first one planned
PickFirst(planned) == 1

\* for merge in reversed(merges): the merge applied next is the last one
\* not applied yet
PickMerge(planned) == Len(planned)

\* tables = self._find_tables(markdown), the early return, and
\* merges = self._identify_merge_candidates(tables, markdown)
PlanMerges ==
    /\ pc = "start"
    /\ result' = markdown
    /\ IF Len(find_tables(markdown, 1)) < 2
       THEN /\ pending' = <<>>
            /\ pc' = "merged"
       ELSE /\ pending' = identify_merge_candidates(find_tables(markdown, 1), 1, {},
                                                     markdown, config)
            /\ pc' = "applying"
    /\ UNCHANGED <<markdown, toc, kwargs, config, toc_map, chunks, result2, log, frame, tree,
                   hierarchy>>

\* result = self._apply_merge(result, merge)
ApplyMerge ==
    /\ pc = "applying"
    /\ pending # <<>>
    /\ result' = apply_merge(result, pending[PickMerge(pending)])
    /\ pending' = SubSeq(pending, 1, PickMerge(pending) - 1)
                      \o SubSeq(pending, PickMerge(pending) + 1, Len(pending))
    /\ UNCHANGED <<markdown, toc, kwargs, config, toc_map, chunks, result2, pc, log, frame,
                   tree, hierarchy>>

\* return result
ReturnMerged ==
    /\ pc = "applying"
    /\ pending = <<>>
    /\ pc' = "merged"
    /\ UNCHANGED <<markdown, toc, kwargs, config, toc_map, chunks, result, result2, log, frame,
                   tree, hierarchy, pending>>

\* merge_tables called again, on the text the first call returned
MergeTablesAgain ==
    /\ pc = "merged"
    /\ result2' = merge_tables(result, config)
    /\ pc' = "again"
    /\ UNCHANGED <<markdown, toc, kwargs, config, toc_map, chunks, result, log, frame, tree,
                   hierarchy, pending>>

NextMergeSteps == PlanMerges \/ ApplyMerge \/ ReturnMerged \/ MergeTablesAgain

(***************************************************************************)
(* Inputs of the table-pair runs: text, a table, a gap of a blank line or  *)
(* a page number and at most MaxGapLines lines of prose, a second table of *)
(* any of five headers, and text.                                          *)
(***************************************************************************)

MaxGapLines == 2

PairSeparator == <<"|", "-", "|", "-", "|", NL>>

PairRows == { <<>>, <<"|", "1", "|", "2", "|", NL>> }

PairFirstTables ==
    {<<"|", "a", "|", "b", "|", NL>> \o PairSeparator \o r : r \in PairRows}

PairHeaders ==
    { <<"|", "a", "|", "b", "|", NL>>,
      <<"|", "A", "|", "b", "|", NL>>,
      <<"|", "a", "|", "c", "|", NL>>,
      <<"|", "c", "|", ".", ".", ".", "|", NL>>,
      <<"|", "a", "|", NL>> }

PairSecondTables == {h \o PairSeparator \o r : h \in PairHeaders, r \in PairRows}

RECURSIVE ProseLines(_)
ProseLines(n) == IF n = 0 THEN <<>> ELSE <<"x", NL>> \o ProseLines(n - 1)

PairGaps ==
    {a \o ProseLines(n) : a \in {<<NL>>, <<NL, "*", "*", "7", "*", "*", NL>>},
                          n \in 0..MaxGapLines}

PairDocs ==
    {pre \o t1 \o post : pre \in {<<>>, <<"z", NL>>}, t1 \in PairFirstTables,
                         post \in {<<>>, <<"y", NL>>}}
    \cup {pre \o t1 \o gap \o t2 \o post :
              pre \in {<<>>, <<"z", NL>>}, t1 \in PairFirstTables, gap \in PairGaps,
              t2 \in PairSecondTables, post \in {<<>>, <<"y", NL>>}}

PairConfigs ==
    { TableMergerConfig,
      [TableMergerConfig EXCEPT !.max_gap_lines = 1],
      [TableMergerConfig EXCEPT !.strict_gap_check = TRUE] }

InitPair ==
    /\ markdown \in PairDocs
    /\ config \in PairConfigs
    /\ toc = <<>>
    /\ kwargs = <<>>
    /\ toc_map = <<>>
    /\ chunks = <<>>
    /\ result = <<>>
    /\ result2 = <<>>
    /\ pc = "start"
    /\ log = <<>>
    /\ frame = NoFrame
    /\ tree = NoTree
    /\ hierarchy = NoTree
    /\ pending = <<>>

SpecPair == InitPair /\ [][NextMergeSteps]_vars

(***************************************************************************)
(* Inputs of the table-chain runs: at most MaxChainTables tables of two    *)
(* headers, one after the other with a blank line or a line of prose       *)
(* between them.                                                           *)
(***************************************************************************)

MaxChainTables == 4

ChainTables ==
    { <<"|", "a", "|", "b", "|", NL>> \o PairSeparator \o <<"|", "1", "|", "2", "|", NL>>,
      <<"|", "a", "|", "b", "|", NL>> \o PairSeparator,
      <<"|", "a", "|", "c", "|", NL>> \o PairSeparator \o <<"|", "1", "|", "2", "|", NL>> }

ChainGaps == { <<NL>>, <<"x", NL>> }

RECURSIVE ChainBodies(_)
ChainBodies(n) ==
    IF n = 1 THEN ChainTables
    ELSE {b \o g \o tb : b \in ChainBodies(n - 1), g \in ChainGaps, tb \in ChainTables}

ChainDocs == UNION {ChainBodies(n) : n \in 1..MaxChainTables}

InitChain ==
    /\ markdown \in ChainDocs
    /\ config = TableMergerConfig
    /\ toc = <<>>
    /\ kwargs = <<>>
    /\ toc_map = <<>>
    /\ chunks = <<>>
    /\ result = <<>>
    /\ result2 = <<>>
    /\ pc = "start"
    /\ log = <<>>
    /\ frame = NoFrame
    /\ tree = NoTree
    /\ hierarchy = NoTree
    /\ pending = <<>>

SpecChain == InitChain /\ [][NextMergeSteps]_vars

(***************************************************************************)
(* Properties of the segmenter and the enricher.                           *)
(***************************************************************************)

\* the text is one table and nothing else: a header row, a separator row and
\* any number of data rows, each delimited by pipes
IsOneTable(c) ==
    LET t == IF c # <<>> /\ c[Len(c)] = NL THEN c ELSE c \o <<NL>>
    IN  TableMatchesAt(t, 1) /\ TableMatchEnd(t, 1) = Len(t)

\* the text is one fenced code block and nothing else
IsOneCodeBlock(c) == CodeMatchesAt(c, 1) /\ CodeMatchEnd(c, 1) = Len(c)

\* the complete tables and the complete fenced code blocks a text holds
TablesIn(c) == TableFindIter(c \o <<NL>>, 1)

CodeBlocksIn(c) == CodeFindIter(c, 1)

\* number of non-overlapping fences in a text
RECURSIVE CountFences(_)
CountFences(c) ==
    LET i == Find(c, Fence, 1)
    IN  IF i = 0 THEN 0 ELSE 1 + CountFences(Slice(c, i + 3, Len(c)))

Segmented == pc \in {"segmented", "enriched"}

\* C1: every chunk of segment is at most max_chunk_size long, unless its
\* content is exactly one table or one fenced code block longer than that.
C1_ChunkSizeBounded ==
    Segmented =>
        \A k \in 1..Len(chunks) :
            \/ Len(chunks[k].content) <= config.max_chunk_size
            \/ IsOneTable(Strip(chunks[k].content))
            \/ IsOneCodeBlock(Strip(chunks[k].content))

\* C2: a chunk typed TABLE holds exactly one complete table, a chunk typed
\* CODE_BLOCK exactly one complete fenced code block and no partial one.
C2_TypedChunkIsAtomic ==
    Segmented =>
        \A k \in 1..Len(chunks) :
            /\ chunks[k].content_type = "TABLE"
                   => Len(TablesIn(chunks[k].content)) = 1
            /\ chunks[k].content_type = "CODE_BLOCK"
                   => /\ Len(CodeBlocksIn(chunks[k].content)) = 1
                      /\ CountFences(chunks[k].content) = 2

\* the contents of the chunks, concatenated in order
RECURSIVE ConcatContents(_)
ConcatContents(cs) ==
    IF cs = <<>> THEN <<>> ELSE cs[1].content \o ConcatContents(Tail(cs))

\* C3: the chunk contents, concatenated in order, reproduce the whole input
\* up to whitespace, the text before the first heading included.
C3_ChunkCoverage ==
    Segmented => DropWs(ConcatContents(chunks)) = DropWs(markdown)

\* C4: after segment and again after enrich_chunks the chunk_index values
\* are 0..N-1 in list order, across all sections.
C4_IndexMonotonic ==
    Segmented => \A k \in 1..Len(chunks) : chunks[k].chunk_index = k - 1

\* an enriched run of two sections, the first of which was split in two
C4_Witness ==
    /\ pc = "enriched"
    /\ Len(chunks) >= 3
    /\ chunks[1].section_path = chunks[2].section_path
    /\ chunks[Len(chunks)].section_path # chunks[1].section_path
    /\ chunks[Len(chunks)].chunk_index = Len(chunks) - 1

(***************************************************************************)
(* Properties of the heading fixer.                                        *)
(***************************************************************************)

\* the outline entries whose normalized title is n
EntriesTitled(n) == {k \in 1..Len(toc) : normalize_title(toc[k].title) = n}

\* the normalized titles of the outline
Titles == {normalize_title(toc[k].title) : k \in 1..Len(toc)}

\* the level the outline records for a normalized title: that of the last
\* entry that carries it
RecordedLevel(n) == toc[Max(EntriesTitled(n))].level

\* a is b with words added before it
WordsBefore(a, b) ==
    /\ Len(a) > Len(b) + 1
    /\ SubSeq(a, Len(a) - Len(b) + 1, Len(a)) = b
    /\ a[Len(a) - Len(b)] = " "

\* C5: a heading text that is an outline title with extra words before it,
\* and equals no outline title, is not matched by the lookup.
C5_PrefixedTitleNotMatched ==
    pc = "looked" =>
        LET n == normalize_title(markdown)
        IN  (n \notin Titles /\ \E t \in Titles : WordsBefore(n, t))
                => result = None

\* the titles that may be matched fuzzily: their ratio reaches
\* min_match_ratio and is not zero
Candidates(n) ==
    {t \in Titles : /\ RatioGE(Ratio(n, t), config.min_match_ratio)
                    /\ Ratio(n, t).num > 0}

BestCandidates(n) ==
    {t \in Candidates(n) : \A u \in Candidates(n) : RatioGE(Ratio(n, t), Ratio(n, u))}

FirstBest(n) ==
    CHOOSE t \in BestCandidates(n) :
        \A u \in BestCandidates(n) : Min(EntriesTitled(t)) <= Min(EntriesTitled(u))

\* C8 (amended): the lookup returns the recorded level of an equal
\* normalized title when there is one; otherwise the recorded level of the
\* title with the highest ratio among those whose ratio is at least
\* min_match_ratio and above zero, the first in outline order among equals;
\* and no level when no title qualifies.
C8_LookupBestMatch ==
    pc = "looked" =>
        LET n == normalize_title(markdown)
        IN  IF n \in Titles THEN result = Some(RecordedLevel(n))
            ELSE IF Candidates(n) = {} THEN result = None
            ELSE result = Some(RecordedLevel(FirstBest(n)))

\* a lookup decided by the order of the outline: two titles share the
\* highest ratio and the level of the first is returned
C8_Witness ==
    /\ pc = "looked"
    /\ normalize_title(markdown) \notin Titles
    /\ Cardinality(BestCandidates(normalize_title(markdown))) >= 2
    /\ result = Some(toc[1].level)
    /\ toc[2].level # toc[1].level

\* the entries whose ratio reaches min_match_ratio, and the first of those
\* with the highest ratio
Reaching(n) ==
    {k \in 1..Len(toc) :
        RatioGE(Ratio(n, normalize_title(toc[k].title)), config.min_match_ratio)}

FirstHighest(n) ==
    Min({k \in Reaching(n) :
            \A j \in Reaching(n) :
                RatioGE(Ratio(n, normalize_title(toc[k].title)),
                        Ratio(n, normalize_title(toc[j].title)))})

\* C8 as stated: the level of an equal title; otherwise the level of the
\* first outline entry with the highest ratio among those reaching
\* min_match_ratio; no level when none reaches it.
C8_Original ==
    pc = "looked" =>
        LET n == normalize_title(markdown)
        IN  IF EntriesTitled(n) # {}
            THEN \E k \in EntriesTitled(n) : result = Some(toc[k].level)
            ELSE IF Reaching(n) = {} THEN result = None
            ELSE result = Some(toc[FirstHighest(n)].level)

Fixed == pc \in {"fixed", "refixed"}

InLines == SplitLines(NormalizeLineEndings(markdown))

OutLines == SplitLines(result)

\* no split-heading merge joined two lines: every merge removes a newline
NoLinesMerged == Len(OutLines) = Len(InLines)

IsHeadingLine(line) == HeadingMatchesAt(line, 1)

HeadingText(line) == HeadingMatch(line, 1).text

\* some text of x is still wrapped in asterisks
HasBoldSpan(x) ==
    \E i, j, k \in 1..Len(x) :
        i < j /\ j < k /\ x[i] = "*" /\ x[j] # "*" /\ x[k] = "*"

\* out is a heading of the given level that carries text, with the bold
\* spans unwrapped when unbold is set
Rewritten(out, level, text, unbold) ==
    /\ Len(out) >= level + 1
    /\ SubSeq(out, 1, level + 1) = Hashes(level) \o <<" ">>
    /\ LET x == Slice(out, level + 2, Len(out))
       IN  IF unbold
           THEN /\ ~HasBoldSpan(x)
                /\ DropWs(Without(x, {"*"})) = DropWs(Without(text, {"*"}))
           ELSE x = text

StrictRequested ==
    \E k \in 1..Len(kwargs) :
        kwargs[k][1] = "bold_non_toc_headings" /\ kwargs[k][2] = TRUE

\* C7: configured with bold_non_toc_headings=True, the fixer rewrites a
\* heading that matches no outline entry as a bold line and a heading that
\* matches one as a heading at the outline's level.
C7_StrictModeBoldsUnmatched ==
    (StrictRequested /\ pc # "start") =>
        /\ pc # "TypeError"
        /\ (Fixed /\ NoLinesMerged) =>
              \A k \in 1..Len(InLines) :
                  IsHeadingLine(InLines[k]) =>
                      LET text  == HeadingText(InLines[k])
                          level == find_toc_level(text, toc_map, config)
                      IN  IF level = None
                          THEN OutLines[k] = <<"*", "*">> \o Strip(Debold(text)) \o <<"*", "*">>
                          ELSE Rewritten(OutLines[k], level[1], text, TRUE)

\* C9: fix_headings applied to its own output changes nothing.
C9_FixHeadingsIdempotent == pc = "refixed" => result2 = result

(***************************************************************************)
(* Properties of the cleanup.                                              *)
(***************************************************************************)

\* C10: cleaning is idempotent under the default configuration: cleaning the
\* output of clean again gives the same text
C10_CleanIdempotent == pc = "recleaned" => result2 = result

(***************************************************************************)
(* Properties of the redundant-TOC step.                                   *)
(***************************************************************************)

TocIn == SplitLines(markdown)

TocOut == SplitLines(result)

\* the line holds a run of at least 5 dots
HasDotRun(line) == \E d \in 1..Len(line) : RunLen(line, d, {"."}) >= 5

\* the line holds a run of at least 5 dots and a digit somewhere after it
HasDotLeader(line) ==
    \E d \in 1..Len(line) :
        /\ RunLen(line, d, {"."}) >= 5
        /\ \E j \in (d + 5)..Len(line) : line[j] \in Digits

\* C11 (amended): the step leaves no line that holds a run of at least 5 dots
\* followed by a digit; and when it deletes no line break (it removes no bold
\* span and no dot-only run that extends over several lines), every line
\* with such a dot leader comes out empty and every line whose longest run
\* of dots is shorter than 5 comes out unchanged.
C11_DotLeaderLinesRemoved ==
    pc = "toc" =>
        /\ \A j \in 1..Len(TocOut) : ~HasDotLeader(TocOut[j])
        /\ Len(TocOut) = Len(TocIn) =>
              \A k \in 1..Len(TocIn) :
                  /\ HasDotLeader(TocIn[k]) => TocOut[k] = <<>>
                  /\ ~HasDotRun(TocIn[k]) => TocOut[k] = TocIn[k]

\* a line with a dot leader was emptied next to a line with a single dot
\* that was kept
C11_Witness ==
    /\ pc = "toc"
    /\ Len(TocOut) = Len(TocIn)
    /\ \E k \in 1..Len(TocIn) : HasDotLeader(TocIn[k]) /\ TocOut[k] = <<>>
    /\ \E k \in 1..Len(TocIn) :
          /\ ~HasDotRun(TocIn[k])
          /\ Contains(TocIn[k], <<".">>)
          /\ TocOut[k] = TocIn[k]

\* C11 as stated: every line with a dot leader is removed, and every line
\* whose longest run of dots is shorter than 5 is still there unchanged.
C11_Original ==
    pc = "toc" =>
        /\ \A j \in 1..Len(TocOut) : ~HasDotLeader(TocOut[j])
        /\ \A k \in 1..Len(TocIn) :
              ~HasDotRun(TocIn[k]) => \E j \in 1..Len(TocOut) : TocOut[j] = TocIn[k]

(***************************************************************************)
(* Properties of the footer step.                                          *)
(***************************************************************************)

\* the text span holds a known recurring section name, whatever the case
HoldsKnownName(text) == \E c \in CommonSections : Contains(Lower(text), c)

\* the line is still a line of the output
KeptLine(line) == \E j \in 1..Len(SplitLines(result)) : SplitLines(result)[j] = line

\* C12: a line of exactly two bold spans, a number of 1-4 digits and a text,
\* in either order, is removed if and only if the text holds a known section
\* name or is shorter than 50 characters; otherwise it is kept unchanged.
C12_FooterPairRule ==
    pc = "footers" =>
        \A k \in 1..Len(SplitLines(markdown)) :
            \A x \in FooterTexts, n \in FooterNumbers :
                SplitLines(markdown)[k] \in {TextFirst(x, n), NumberFirst(x, n)}
                    => (KeptLine(SplitLines(markdown)[k])
                           <=> ~(HoldsKnownName(x) \/ Len(x) < 50))

(***************************************************************************)
(* Properties of the table merger.                                         *)
(***************************************************************************)
\* the tables of the input and the merges the merger decides on
FoundTables == find_tables(markdown, 1)

FoundMerges == identify_merge_candidates(FoundTables, 1, {}, markdown, config)

\* the rows, each followed by its line end
RECURSIVE RowLines(_)
RowLines(rows) ==
    IF rows = <<>> THEN <<>> ELSE rows[1] \o <<NL>> \o RowLines(Tail(rows))

\* the text around two tables with, in their place, the first table
\* followed by the data rows of the second
OneTable(md, table1, table2) ==
    Slice(md, 1, table1.start - 1) \o table1.text \o RowLines(table2.rows)
        \o Slice(md, table2.end + 1, Len(md))

\* C13: when merge_tables merges the two tables of a document and their header
\* columns are identical, the output holds in their place the first table's
\* header row, separator row and data rows and then the second table's data
\* rows, each on its own line; the second header and separator and the text
\* between the tables are gone.
C13_MergedTableShape ==
    (/\ pc = "merged"
     /\ Len(FoundTables) = 2
     /\ Len(FoundMerges) = 1
     /\ FoundTables[1].header_cols = FoundTables[2].header_cols)
        => result = OneTable(markdown, FoundTables[1], FoundTables[2])

(***************************************************************************)
(* Properties of the segmenter configuration.                              *)
(***************************************************************************)
ValidBounds(c) ==
    /\ c.min_chunk_size <= c.max_chunk_size
    /\ c.target_chunk_size <= c.max_chunk_size

\* C14: a configuration with invalid numeric bounds (min_chunk_size or
\* target_chunk_size above max_chunk_size) is rejected at construction: no
\* segmenter is ever constructed, and no document segmented, with such bounds.
C14_InvalidBoundsRejected ==
    pc \in {"start", "segmented"} => ValidBounds(config)

(***************************************************************************)
(* Properties of the conversion pipeline.                                  *)
(***************************************************************************)
AllStagesEnabled == \A k \in 1..Len(StageOrder) : config[StageOrder[k]]

\* where a stage is announced in log for the first and for the last time,
\* 0 when it never is
FirstRun(stage) ==
    LET First(at) == IF at = {} THEN 0 ELSE Min(at)
    IN  First({k \in 1..Len(log) : log[k] = stage})

LastRun(stage) ==
    LET Last(at) == IF at = {} THEN 0 ELSE Max(at)
    IN  Last({k \in 1..Len(log) : log[k] = stage})

\* stage a has executed, stage b has, and a came first
RanBefore(a, b) == FirstRun(a) # 0 /\ FirstRun(a) < FirstRun(b)

\* the entries of a log that name a stage of Set
RECURSIVE Only(_, _)
Only(lg, Set) ==
    IF lg = <<>> THEN <<>>
    ELSE (IF lg[1] \in Set THEN <<lg[1]>> ELSE <<>>) \o Only(Tail(lg), Set)

IsPrefix(a, b) == Len(a) <= Len(b) /\ a = SubSeq(b, 1, Len(a))

\* the five stages the ordering is stated for, in the order of the code,
\* without heading correction when there is no outline and without
\* enrichment when segmentation returned no chunk
OrderedStages ==
    <<"merge_tables">> \o (IF toc # <<>> THEN <<"fix_headings">> ELSE <<>>)
        \o <<"run_cleanup", "segment_content">>
        \o (IF chunks # <<>> THEN <<"enrich_metadata">> ELSE <<>>)

\* C15 (as amended): with every stage enabled the stages execute in the order
\* table merging, heading correction (when there is an outline), artifact
\* cleanup, segmentation, metadata enrichment (when segmentation returned
\* chunks), each once: the cleanup is one stage after heading correction and
\* table merging, and no artifact removal precedes them.
C15_StagesInCodeOrder ==
    AllStagesEnabled =>
        /\ IsPrefix(Only(log, {"merge_tables", "fix_headings", "run_cleanup",
                               "segment_content"}),
                    Only(OrderedStages, {"merge_tables", "fix_headings", "run_cleanup",
                                         "segment_content"}))
        /\ pc = "done" =>
               Only(log, {"merge_tables", "fix_headings", "run_cleanup",
                          "segment_content", "enrich_metadata"}) = OrderedStages

\* a complete run with every stage enabled and an outline, in which all seven
\* stages executed and the markdown was rewritten
C15_Witness ==
    /\ pc = "done"
    /\ AllStagesEnabled
    /\ toc # <<>>
    /\ Len(log) = 7
    /\ result # markdown

\* C15 as stated: with every stage enabled the order is artifact removal,
\* heading correction, table merging, further artifact cleanup, segmentation,
\* metadata enrichment.
C15_Original ==
    (pc = "done" /\ AllStagesEnabled /\ toc # <<>>) =>
        /\ RanBefore("run_cleanup", "fix_headings")
        /\ RanBefore("fix_headings", "merge_tables")
        /\ FirstRun("merge_tables") < LastRun("run_cleanup")
        /\ LastRun("run_cleanup") < FirstRun("segment_content")
        /\ RanBefore("segment_content", "enrich_metadata")

\* the stages that assign result.markdown
RewritingStages ==
    {"merge_tables", "fix_headings", "fix_links", "fix_code_blocks", "run_cleanup"}

\* the stage a step announces, <<>> when it announces none
Announced == IF log' = log THEN <<>> ELSE <<log'[Len(log')]>>

\* C16: whatever the stage flags, no stage that rewrites the markdown executes
\* once segmentation has, enrichment executes only after segmentation, and
\* result.markdown stays what the chunks were cut from.
C16_SegmentationAfterRewriting ==
    [][/\ FirstRun("segment_content") # 0 =>
              /\ result' = result
              /\ \A stage \in RewritingStages : Announced # <<stage>>
       /\ Announced = <<"enrich_metadata">> => FirstRun("segment_content") # 0]_vars

\* a complete run in which the cleanup rewrote the markdown, segmentation cut
\* chunks from the result and enrichment followed
C16_Witness ==
    /\ pc = "done"
    /\ RanBefore("run_cleanup", "segment_content")
    /\ RanBefore("segment_content", "enrich_metadata")
    /\ result # markdown
    /\ chunks # <<>>

\* the stages that scan their input line by line
LineScanningStages == {"merge_tables", "fix_headings", "run_cleanup", "segment_content"}

\* the if statement that is next is that of stage, and its body executes
Executes(stage) ==
    /\ pc = stage
    /\ config[stage]
    /\ stage = "fix_headings" => toc # <<>>

\* C18: whichever stages are enabled and whether or not there is an outline,
\* every line-scanning stage that executes receives text without "\r": the
\* "\r\n" and "\r" of the raw markdown were converted before it runs.
C18_StagesReceiveNewlinesOnly ==
    \A stage \in LineScanningStages :
        Executes(stage) => ~Contains(result, <<"\r">>)

(***************************************************************************)
(* Properties of the section paths of consecutive chunks.                  *)
(***************************************************************************)

\* the positions i of chunks that follow another chunk
Followers == IF pc \in {"segmented", "enriched"} THEN 2..Len(chunks) ELSE {}

\* the section_path of chunk i is shorter than that of chunk i - 1
PathShrinks(i) == Len(chunks[i].section_path) < Len(chunks[i - 1].section_path)

\* C17: for consecutive chunks i-1 and i returned by segment, the section_path
\* of chunk i is at least as long as the section_path of chunk i-1, unless
\* chunk i belongs to a new section whose heading has fewer "#" than the
\* heading of chunk i-1's section (a level 1 section or any other).
C17_PathShrinksOnlyAtHigherHeading ==
    \A i \in Followers :
        PathShrinks(i) => chunks[i].section_level < chunks[i - 1].section_level

\* a level 2 section follows a level 3 section, and its path is shorter
C17_Witness ==
    \E i \in Followers :
        /\ PathShrinks(i)
        /\ chunks[i - 1].section_level = 3
        /\ chunks[i].section_level = 2

\* C17 as stated: the section_path of chunk i is at least as long as that of
\* chunk i-1 unless chunk i belongs to a new top-level (level 1) section.
C17_Original ==
    \A i \in Followers :
        PathShrinks(i) => chunks[i].section_level = 1

(***************************************************************************)
(* Properties of the splitting of an oversized section.                    *)
(***************************************************************************)

\* every section of the document is longer than max_chunk_size, so every
\* chunk comes from _split_large_section
AllSectionsOversized ==
    \A k \in 1..Len(SplitByHeadings(markdown)) :
        Len(SplitByHeadings(markdown)[k].content) > config.max_chunk_size

\* the chunk holds a complete table or a complete fenced code block
HoldsAtomicElement(chunk) ==
    TablesIn(chunk.content) # <<>> \/ CodeBlocksIn(chunk.content) # <<>>

\* C19: when a section exceeds max_chunk_size and table and code preservation
\* are on, every table and every fenced code block of the section is a chunk
\* of its own: a chunk that holds such an element holds nothing else, whether
\* or not blank lines separate the element from the text around it.
C19_AtomicElementAlone ==
    (/\ Segmented
     /\ config.preserve_tables
     /\ config.preserve_code_blocks
     /\ AllSectionsOversized)
        => \A k \in 1..Len(chunks) :
               HoldsAtomicElement(chunks[k])
                   => \/ IsOneTable(Strip(chunks[k].content))
                      \/ IsOneCodeBlock(Strip(chunks[k].content))

\* the stepwise run returns what _split_large_section returns
SplitStepsAgree ==
    pc = "returned"
        => chunks = split_large_section(markdown, DocumentSection(markdown), config)

\* the sum of the sizes of paragraphs
RECURSIVE ParagraphsSize(_)
ParagraphsSize(ps) == IF ps = <<>> THEN 0 ELSE Len(ps[1]) + ParagraphsSize(Tail(ps))

\* the step is an iteration that adds its paragraph to the running chunk
AddsParagraph ==
    /\ pc = "loop"
    /\ frame'.para_index = frame.para_index + 1
    /\ frame'.current_chunk # <<>>

\* C20: while an oversized section is split, the running chunk is flushed
\* before a paragraph is added exactly when it is non-empty and its accumulated
\* paragraph size plus the size of the paragraph exceeds target_chunk_size, and
\* what is flushed is the running chunk; hence a running chunk of two or more
\* paragraphs has a total paragraph size (the sizes the loop measures, of the
\* paragraphs as split) of at most target_chunk_size.
C20_FlushRule ==
    /\ [][AddsParagraph =>
             /\ chunks' # chunks
                    <=> /\ frame.current_chunk # <<>>
                        /\ frame.current_size + Len(Para) > config.target_chunk_size
             /\ chunks' # chunks => chunks' = Flushed
             /\ frame'.current_chunk[Len(frame'.current_chunk)] = Para]_vars
    /\ [](/\ frame.current_size = ParagraphsSize(frame.current_chunk)
          /\ Len(frame.current_chunk) >= 2
                 => frame.current_size <= config.target_chunk_size)

\* a chunk was flushed and the running chunk holds two paragraphs, the second
\* of them not empty
C20_Witness ==
    /\ pc = "loop"
    /\ chunks # <<>>
    /\ Len(frame.current_chunk) = 2
    /\ frame.current_chunk[2] # <<>>

(***************************************************************************)
(* Properties of the section paths.                                        *)
(***************************************************************************)

\* the sections of the document, when it has headings
HeadedSections ==
    IF HeadingFindIter(markdown, 1) = <<>> THEN <<>> ELSE SplitByHeadings(markdown)

\* the nearest section before section k with a strictly smaller level, or 0
ParentSection(secs, k) ==
    LET smaller == {j \in 1..(k - 1) : secs[j].level < secs[k].level}
    IN  IF smaller = {} THEN 0 ELSE Max(smaller)

\* the titles of the ancestors of section k, the outermost first
RECURSIVE AncestorTitles(_, _)
AncestorTitles(secs, k) ==
    LET parent == ParentSection(secs, k)
    IN  IF parent = 0 THEN <<>>
        ELSE Append(AncestorTitles(secs, parent), secs[parent].title)

\* the path stack after the headings of sections 1..k were processed
RECURSIVE StackAfter(_, _)
StackAfter(secs, k) ==
    IF k = 0 THEN <<>>
    ELSE Append(PopStack(StackAfter(secs, k - 1), secs[k].level),
                [level |-> secs[k].level, title |-> secs[k].title])

StrictlyIncreasing(stack) ==
    \A i \in 1..(Len(stack) - 1) : stack[i].level < stack[i + 1].level

\* cp is sp with every element repeated one or more times
RECURSIVE Stutters(_, _)
Stutters(cp, sp) ==
    IF sp = <<>> THEN cp = <<>>
    ELSE /\ cp # <<>>
         /\ cp[1] = sp[1]
         /\ \/ Stutters(Tail(cp), Tail(sp))
            \/ Stutters(Tail(cp), sp)

\* C21: the path recorded for every section lists exactly the titles of its
\* ancestors (the chain of nearest preceding headings of strictly smaller
\* level), the levels on the path stack are strictly increasing after every
\* heading, and the section_path of every chunk is the path of its section
\* followed by the section's title.
C21_PathIsAncestorChain ==
    (Segmented /\ HeadedSections # <<>>) =>
        LET secs == HeadedSections
        IN  /\ \A k \in 1..Len(secs) :
                   /\ secs[k].path = AncestorTitles(secs, k)
                   /\ StrictlyIncreasing(StackAfter(secs, k))
            /\ Stutters([i \in 1..Len(chunks) |-> chunks[i].section_path],
                        [k \in 1..Len(secs) |->
                            Append(AncestorTitles(secs, k), secs[k].title)])

\* a section whose parent is neither missing nor the section just before it,
\* after a deeper section was popped from the stack
C21_Witness ==
    /\ Segmented
    /\ \E k \in 1..Len(HeadedSections) :
           /\ ParentSection(HeadedSections, k) \notin {0, k - 1}
           /\ HeadedSections[k - 1].level > HeadedSections[k].level
    /\ \E i \in 1..Len(chunks) : Len(chunks[i].section_path) = 2

(***************************************************************************)
(* Properties of the neighbouring sections recorded in the chunks.         *)
(***************************************************************************)

\* what a chunk says about its section and the sections around it
Neighbourhood(chunk) ==
    <<chunk.section_path, chunk.preceding_section, chunk.following_section>>

\* Optional title of section j, None when there is no such section
TitleOrNone(secs, j) == IF j \in 1..Len(secs) THEN Some(secs[j].title) ELSE None

\* the nearest section before (after) section k at the level of section k
SiblingBefore(secs, k) ==
    LET same == {j \in 1..(k - 1) : secs[j].level = secs[k].level}
    IN  IF same = {} THEN 0 ELSE Max(same)

SiblingAfter(secs, k) ==
    LET same == {j \in (k + 1)..Len(secs) : secs[j].level = secs[k].level}
    IN  IF same = {} THEN 0 ELSE Min(same)

\* C22: every chunk of a section carries as preceding_section and
\* following_section the titles of the sections just before and just after
\* its own section in document order, whatever their heading levels (none
\* at the ends of the document), and all sub-chunks of one section carry the
\* same two values.
C22_NeighboursInDocumentOrder ==
    Segmented =>
        LET secs == SplitByHeadings(markdown)
        IN  Stutters([i \in 1..Len(chunks) |-> Neighbourhood(chunks[i])],
                     [k \in 1..Len(secs) |->
                         <<Append(secs[k].path, secs[k].title),
                           TitleOrNone(secs, k - 1),
                           TitleOrNone(secs, k + 1)>>])

\* a section between two sections of other levels was cut into sub-chunks
C22_Witness ==
    /\ Segmented
    /\ \E k \in 2..(Len(SplitByHeadings(markdown)) - 1) :
           /\ SplitByHeadings(markdown)[k - 1].level # SplitByHeadings(markdown)[k].level
           /\ SplitByHeadings(markdown)[k + 1].level # SplitByHeadings(markdown)[k].level
           /\ \E i \in 1..(Len(chunks) - 1) :
                  /\ chunks[i].section_path = chunks[i + 1].section_path
                  /\ chunks[i].section_level = SplitByHeadings(markdown)[k].level
                  /\ chunks[i].preceding_section # None
                  /\ chunks[i].following_section # None

\* C22 as stated: preceding_section and following_section are the titles of
\* the nearest preceding and following sections at the same heading level.
C22_Original ==
    Segmented =>
        LET secs == SplitByHeadings(markdown)
        IN  Stutters([i \in 1..Len(chunks) |-> Neighbourhood(chunks[i])],
                     [k \in 1..Len(secs) |->
                         <<Append(secs[k].path, secs[k].title),
                           TitleOrNone(secs, SiblingBefore(secs, k)),
                           TitleOrNone(secs, SiblingAfter(secs, k))>>])

(***************************************************************************)
(* Properties of the content-type detection.                               *)
(***************************************************************************)

\* the line, terminated by a newline or not, is a list item: optional
\* whitespace, a bullet or a number with a period, then a whitespace
\* character (which the terminating newline is)
IsListLine(line, terminated) ==
    LET p      == 1 + RunLen(line, 1, WS)
        digits == RunLen(line, p, Digits)
        After(q) == IF q <= Len(line) THEN line[q] \in WS
                    ELSE q = Len(line) + 1 /\ terminated
    IN  \/ p <= Len(line) /\ line[p] \in {"-", "*", "+"} /\ After(p + 1)
        \/ /\ digits >= 1
           /\ p + digits <= Len(line)
           /\ line[p + digits] = "."
           /\ After(p + digits + 1)

\* the lines of a block (one more than its newlines) and those that are
\* list items
BlockLines(c) == SplitOn(c, NL)

ListLineCount(c) ==
    Cardinality({k \in 1..Len(BlockLines(c)) :
                    IsListLine(BlockLines(c)[k], k < Len(BlockLines(c)))})

\* the rules of the detection in their order, and what each asks of a block
TypeRules == <<"TABLE", "CODE_BLOCK", "LIST", "HEADING", "PROSE">>

RuleMatches(rule, c) ==
    CASE rule = "TABLE"      -> \E i \in 1..Len(c) : TypeTableAt(c, i)
      [] rule = "CODE_BLOCK" -> HasCode(c)
      [] rule = "LIST"       -> 2 * ListLineCount(c) > Len(BlockLines(c))
      [] rule = "HEADING"    -> BareHeading(Strip(c))
      [] rule = "PROSE"      -> TRUE

FirstMatchingRule(c) ==
    TypeRules[Min({k \in 1..Len(TypeRules) : RuleMatches(TypeRules[k], c)})]

\* C23: the detection returns the first rule that matches in the order table,
\* fenced code block, list (more than half of the lines are list items),
\* single bare heading line, prose: a block with a table and a code block is
\* TABLE, a block with a code block and a majority of list lines (and no
\* table) is CODE_BLOCK, and MIXED is never returned.
C23_FirstMatchingRuleWins ==
    pc = "detected" =>
        /\ result = FirstMatchingRule(markdown)
        /\ result # "MIXED"
        /\ (RuleMatches("TABLE", markdown) /\ RuleMatches("CODE_BLOCK", markdown))
               => result = "TABLE"
        /\ (/\ ~RuleMatches("TABLE", markdown)
            /\ RuleMatches("CODE_BLOCK", markdown)
            /\ RuleMatches("LIST", markdown))
               => result = "CODE_BLOCK"

\* a block with a table and a code block was typed
C23_Witness ==
    /\ pc = "detected"
    /\ RuleMatches("TABLE", markdown)
    /\ RuleMatches("CODE_BLOCK", markdown)
    /\ result = "TABLE"

(***************************************************************************)
(* Properties of the outline tree.                                         *)
(***************************************************************************)

\* the numbers of a list of objects are in increasing order
InInputOrder(list) == \A i \in 1..(Len(list) - 1) : list[i] < list[i + 1]

\* the objects met by a pre-order walk that starts with the objects of list
RECURSIVE PreOrder(_, _)
PreOrder(nodes, list) ==
    IF list = <<>> THEN <<>>
    ELSE <<list[1]>> \o PreOrder(nodes, nodes[list[1]].children)
                     \o PreOrder(nodes, Tail(list))

\* object k is a child of its parent p, a root when p is 0
IsChildOf(roots, nodes, k, p) ==
    LET siblings == IF p = 0 THEN roots ELSE nodes[p].children
    IN  \E i \in 1..Len(siblings) : siblings[i] = k

\* the tree of roots and nodes is the outline tree of the flat list toc
IsOutlineTree(roots, nodes) ==
    /\ Len(nodes) = Len(toc)
    /\ \A k \in 1..Len(toc) :
           /\ IsChildOf(roots, nodes, k, ParentSection(toc, k))
           /\ \A p \in 1..Len(toc) :
                  IsChildOf(roots, nodes, k, p) => toc[k].level > toc[p].level
           /\ InInputOrder(nodes[k].children)
    /\ InInputOrder(roots)
    /\ PreOrder(nodes, roots) = [k \in 1..Len(toc) |-> k]

\* C24: the outline tree gives each entry as parent the nearest preceding
\* entry of strictly smaller level (a root when there is none), every node's
\* level is greater than its parent's, children are in input order and a
\* pre-order walk yields every entry exactly once in input order; this holds
\* of the tree of TOCProcessor and of the dict of create_heading_hierarchy.
C24_OutlineTree ==
    /\ pc \in {"built", "created"} =>
           /\ IsOutlineTree(tree.root_nodes, tree.nodes)
           /\ \A k \in 1..Len(toc) :
                  /\ tree.nodes[k].item = toc[k]
                  /\ tree.nodes[k].parent = ParentSection(toc, k)
    /\ pc = "created" =>
           /\ IsOutlineTree(hierarchy.root.children, hierarchy.nodes)
           /\ \A k \in 1..Len(toc) :
                  /\ hierarchy.nodes[k].title = toc[k].title
                  /\ hierarchy.nodes[k].level = toc[k].level

\* an entry whose parent is neither a root nor the entry just before it, in
\* an outline with two roots
C24_Witness ==
    /\ pc = "created"
    /\ \E k \in 1..Len(toc) : tree.nodes[k].parent \notin {0, k - 1}
    /\ Len(hierarchy.root.children) = 2

(***************************************************************************)
(* Properties of the steps of merge_tables.                                *)
(***************************************************************************)

\* the stepwise run returns what merge_tables returns
MergeStepsAgree == pc \in {"merged", "again"} => result = merge_tables(markdown, config)

\* the line is a page artifact: a bold title and bold number, a bold number,
\* a number or an empty bold span, and nothing else
IsArtifactLine(line) ==
    LET st == Strip(line)
        whole == SubTo(Len(st) + 1, <<>>)
    IN  /\ st # <<>>
        /\ \/ GapFooterMatch(st, 1) = whole
           \/ GapBoldNumberMatch(st, 1) = whole
           \/ GapNumberLineMatch(st, 1) = whole
           \/ GapEmptyBoldMatch(st, 1) = whole

\* the lines of the gap that are neither blank nor page artifacts
GapTextLines(gap) ==
    {k \in 1..Len(SplitLines(gap)) :
        /\ Strip(SplitLines(gap)[k]) # <<>>
        /\ ~IsArtifactLine(SplitLines(gap)[k])}

\* the text between two tables of the document md
GapBetween(md, table1, table2) == Slice(md, table1.end + 1, table2.start - 1)

\* the three conditions of a merge, as the claim states them
SameColumnCount(table1, table2) == Len(table1.header_cols) = Len(table2.header_cols)

GapAllowed(gap, cfg) == Cardinality(GapTextLines(gap)) <= cfg.max_gap_lines

IsContinuation(table1, table2, cfg) ==
    LET n      == Len(table1.header_cols)
        equal  == {k \in 1..n : /\ k <= Len(table2.header_cols)
                                /\ Lower(table1.header_cols[k])
                                       = Lower(table2.header_cols[k])}
    IN  \/ table1.header_cols = table2.header_cols
        \/ \E k \in 1..Len(table2.header_cols) : \E marker \in ContinuationMarkers :
               Contains(Lower(table2.header_cols[k]), marker)
        \/ /\ n > 0
           /\ Cardinality(equal) * cfg.min_column_match.den
                  >= cfg.min_column_match.num * n

MergeConditions(md, table1, table2, cfg) ==
    /\ SameColumnCount(table1, table2)
    /\ GapAllowed(GapBetween(md, table1, table2), cfg)
    /\ IsContinuation(table1, table2, cfg)

WithHeaderAsData(table1, table2) ==
    Join(SplitLines(Strip(table1.text)) \o <<table2.header>> \o table2.rows, <<NL>>)

\* the document's two tables were merged and their header columns differ
MergedWithOtherHeader ==
    /\ pc = "merged"
    /\ Len(FoundTables) = 2
    /\ Len(FoundMerges) = 1
    /\ FoundTables[1].header_cols # FoundTables[2].header_cols

\* C26: when merge_tables merges two tables whose header columns differ, the
\* output holds the first table's rows, then the second table's header row,
\* then the second table's data rows, also when the second table has no data
\* rows.
C26_HeaderRowKept ==
    MergedWithOtherHeader
        => Contains(result, WithHeaderAsData(FoundTables[1], FoundTables[2]))

\* the same for a second table that has data rows
C26_HeaderRowKeptBeforeRows ==
    (MergedWithOtherHeader /\ FoundTables[2].rows # <<>>)
        => Contains(result, WithHeaderAsData(FoundTables[1], FoundTables[2]))

C26_RowsFollowHeader ==
    MergedWithOtherHeader /\ FoundTables[2].rows # <<>> /\ result # markdown

\* the offsets stored in the merge delimit its two tables in the text
DelimitsItsTables(text, merge) ==
    /\ Slice(text, merge.first_table.start, merge.first_end) = merge.first_table.text
    /\ Slice(text, merge.second_start, merge.second_end) = merge.second_table.text

\* C27: the merges planned in one pass of merge_tables share no table, and
\* while they are applied from the last to the first the offsets stored in
\* every merge still to be applied delimit its two tables in the current text.
C27_OffsetsStayValid ==
    pc = "applying" =>
        /\ \A j, k \in 1..Len(pending) :
               j < k => pending[j].second_end < pending[k].first_table.start
        /\ \A k \in 1..Len(pending) : DelimitsItsTables(result, pending[k])

\* two merges were planned and the later one has been applied
C27_Witness ==
    /\ pc = "applying"
    /\ Len(FoundMerges) = 2
    /\ Len(pending) = 1
    /\ result # markdown

\* the document's two tables were merged
MergedPair ==
    /\ pc = "merged"
    /\ Len(FoundTables) = 2
    /\ Len(FoundMerges) = 1

\* the lines of the gap that are neither blank nor page artifacts, in order
GapText(gap) ==
    LET lines == SplitLines(gap)
    IN  SelectSeq([k \in 1..Len(lines) |-> <<k, lines[k]>>],
                  LAMBDA e : e[1] \in GapTextLines(gap))

\* C28: merging two tables removes only the second table's header and
\* separator rows and the blank and page-artifact lines between the tables:
\* every other line of the gap, the text before the first table and the text
\* after the second are still present in the output.
C28_OnlyArtifactsRemoved ==
    MergedPair =>
        /\ \A k \in 1..Len(GapText(GapBetween(markdown, FoundTables[1], FoundTables[2]))) :
               Contains(result,
                   GapText(GapBetween(markdown, FoundTables[1], FoundTables[2]))[k][2])
        /\ Slice(result, 1, FoundTables[1].start - 1)
               = Slice(markdown, 1, FoundTables[1].start - 1)
        /\ Slice(result, Len(result) - (Len(markdown) - FoundTables[2].end) + 1, Len(result))
               = Slice(markdown, FoundTables[2].end + 1, Len(markdown))

\* the text before the first table and the text after the second are kept
C28_SurroundingTextKept ==
    MergedPair =>
        /\ Slice(result, 1, FoundTables[1].start - 1)
               = Slice(markdown, 1, FoundTables[1].start - 1)
        /\ Slice(result, Len(result) - (Len(markdown) - FoundTables[2].end) + 1, Len(result))
               = Slice(markdown, FoundTables[2].end + 1, Len(markdown))

\* the placeholders the segmenter can have substituted in a document of the
\* run: at most one protected element per token
Placeholders ==
    {TablePlaceholder(k) : k \in 0..MaxSegTokens}
        \cup {CodePlaceholder(k) : k \in 0..MaxSegTokens}

\* C29: no chunk returned by segment contains a placeholder the segmenter
\* substituted for a table or a fenced code block, also when a fenced code
\* block encloses a table.
C29_NoPlaceholderLeft ==
    Segmented =>
        \A k \in 1..Len(chunks) : \A ph \in Placeholders :
            ~Contains(chunks[k].content, ph)

\* two consecutive tables of the text satisfy the merge conditions
StillMergeable(text, cfg) ==
    \E i \in 1..(Len(find_tables(text, 1)) - 1) :
        should_merge(find_tables(text, 1)[i], find_tables(text, 1)[i + 1], text, cfg)

\* C30: one pass of merge_tables reaches a fixed point: no two consecutive
\* tables of its output satisfy the merge conditions, and a second pass
\* returns the output of the first.
C30_OnePassIsFixedPoint ==
    pc = "again" =>
        /\ ~StillMergeable(result, config)
        /\ result2 = result

====
